---- MODULE Spec2Model ----
(***************************************************************************)
(* A model of MorphMacro: the Click Driver of AutoClicker.py (one worker   *)
(* thread, one controlling thread calling toggle() and stop()) and the     *)
(* Macro Recorder / Player of Macros.py (Tk main thread, two listener      *)
(* threads, playback worker threads).                                      *)
(*                                                                         *)
(* Time is discrete.  One tick is the unit of every duration in the model  *)
(* (interval, jitter, duration limit, idle poll, recorded timestamps).     *)
(***************************************************************************)
EXTENDS Integers, Sequences, FiniteSets, TLC

\* ------------------------------------------------------------------ bounds
MaxInterval == 1      \* largest cfg.interval_sec tried
MaxJitter   == 1      \* largest cfg.jitter_sec tried
MaxCount    == 2      \* largest cfg.click_count tried
MaxDuration == 2      \* largest cfg.duration_sec tried
MaxTime     == 1      \* recorded timestamps and waits are tracked up to this many ticks
MaxActions  == 2      \* events delivered to the recorder while the list is shorter
MaxQueue    == 1      \* events delivered to the recorder while the UI queue is shorter
MaxWorkers  == 2      \* playback threads that can exist at once
MaxMoveTime == 4      \* ticks of 10 ms a recording of pointer moves is followed for
MaxKeys     == 1      \* key events delivered while the list of a recording is shorter

\* The click counter and the age of _started_at saturate one past the largest
\* limit they are compared with, so that every comparison keeps its meaning.
MaxClicks  == MaxCount + 1
MaxElapsed == MaxDuration + 1

\* The longest wait of a playback: one tick more than a recording can stamp.
MaxWait == MaxTime + 1

\* "self._started_at is None"
None == -1

Min(a, b) == IF a < b THEN a ELSE b
Max(a, b) == IF a > b THEN a ELSE b

VARIABLES
  \* ---- AutoClicker.py: class AutoClicker
  cfg,            \* self.cfg (ClickConfig), fixed at construction
  clicking,       \* self._clicking (threading.Event)
  stop_all,       \* self._stop_all (threading.Event)
  since_started,  \* time.time() - self._started_at; None while _started_at is None
  clicks_done,    \* self._clicks_done
  state_note,     \* self._state_note
  wpc,            \* position of the worker thread in _run
  wtmp,           \* value of self._clicks_done loaded by "+= 1" in _do_click
  sleep_left,     \* time left of the worker's current time.sleep
  cpc,            \* position of the controlling thread in toggle() / stop()
  \* ---- observers of the Click Driver (written by no code, read by the claims)
  clicks_since_on,  \* mouse clicks issued since the last idle->active toggle returned
  intervened,       \* a toggle, stop, failsafe or duration stop since that toggle
  fresh,            \* that toggle returned and no click was issued since
  late_clicks,      \* clicks issued with age of _started_at >= duration_sec, since _started_at was set
  entered_after_stop  \* the worker found _clicking set after a stop() had returned

VARIABLES
  \* ---- Macros.py: class MacroApp
  actions,        \* self.actions
  queue,          \* self._queue (UIEvent records, oldest first)
  recording,      \* self._recording
  playing,        \* self._playing
  playback_stop,  \* self._playback_stop (threading.Event)
  rec_age,        \* time.perf_counter() - self._record_started_at
  listening,      \* per device: self._mouse_listener / self._keyboard_listener is running
  cb,             \* per device: the listener thread's position in its callback
  workers,        \* the playback threads (self._playback_thread and its predecessors)
  action_list,    \* rows of the self.action_list listbox
  buttons,        \* the buttons whose state is "normal"
  draining,       \* _drain_queue is inside its loop
  saved_file,     \* text of the file save_macro wrote
  feedback,       \* what the last handler told the user (status_var or message box)
  \* ---- observers of the macro window (written by no code, read by the claims)
  saved_actions,  \* the list save_macro wrote to saved_file
  recorded,       \* self.actions holds what a recording produced (no file was loaded into it)
  input_since_start  \* a listener delivered an input event since start_recording last cleared the list

cvars == <<cfg, clicking, stop_all, since_started, clicks_done, state_note,
           wpc, wtmp, sleep_left, cpc,
           clicks_since_on, intervened, fresh, late_clicks, entered_after_stop>>

mvars == <<actions, queue, recording, playing, playback_stop, rec_age, listening,
           cb, workers, action_list, buttons, draining, saved_file, feedback,
           saved_actions, recorded, input_since_start>>

VARIABLES
  \* ---- AutoClicker.py: main(), run_cli, AutoClickerGUI
  app,              \* where main() is: "main", "built", "gui_init", "cli", "gui", "exited"
  cli_args,         \* the argparse Namespace: the dests that are not None
  built,            \* the local cfg of build_config_from_args
  hotkey_listener,  \* the running keyboard.GlobalHotKeys (_hotkey_listener of the GUI)
  message,          \* title of the last message box, or the error that ended the program
  default_config,   \* the module's DEFAULT_CONFIG object
  replaced          \* how many drivers on_apply replaced while their _stop_all was unset

avars == <<app, cli_args, built, hotkey_listener, message, default_config, replaced>>

VARIABLES
  \* ---- an observer that only CancelSpec advances (written by no code)
  since_cancel      \* clicks issued since a toggle() to idle or a stop() returned; None
                    \* when none returned yet or a toggle() has activated the driver since

VARIABLES
  \* ---- Macros.py: the recording options and the macro hotkeys
  capture_moves_var,  \* self.capture_moves_var (the "Record mouse movement" checkbox)
  capture_moves,      \* self._capture_moves
  last_move_log_t,    \* self._last_move_log_t
  last_move_pos,      \* self._last_move_pos
  hotkey_parts,       \* self._hotkey_parts, as the set of its elements
  macro_hotkeys,      \* the hotkey strings of the running GlobalHotKeys (self._hotkey_listener)
  \* ---- observers (written by no code, read by the claims)
  applied_hotkeys,    \* the four entries of the last _apply_hotkeys that returned True
  last_key            \* the key of the last event the keyboard listener delivered

rvars == <<capture_moves_var, capture_moves, last_move_log_t, last_move_pos,
           hotkey_parts, macro_hotkeys, applied_hotkeys, last_key>>

vars == <<cvars, mvars, avars, since_cancel, rvars>>

\* ------------------------------------------------------------ AutoClicker.py

\* A clamp that lets a negative delay through.
clamp_nothing(x) == x

\* clamp_nonnegative(x)
clamp_nonnegative(x) == IF x > 0 THEN x ELSE 0

\* The configurations a driver is constructed with.
ClickConfigs ==
  [interval_sec : 0..MaxInterval, jitter_sec : 0..MaxJitter,
   click_count : 0..MaxCount, duration_sec : 0..MaxDuration,
   failsafe_corner_stop : BOOLEAN,
   button : {"left"}, toggle_key : {"<f8>"}, quit_key : {"<esc>"}]

\* The fields of ClickConfig that the worker, the hotkeys and the checks of a
\* configuration read (double_click, fixed_position, x, y and always_on_top shape
\* the click and the window only).
DEFAULT_CONFIG ==
  [interval_sec |-> 1, jitter_sec |-> 0, click_count |-> 0, duration_sec |-> 0,
   failsafe_corner_stop |-> TRUE,
   button |-> "left", toggle_key |-> "<f8>", quit_key |-> "<esc>"]

\* "self._hotkey_listener = None"
NoListener == [on |-> FALSE, toggle |-> "", quit |-> ""]

\* The argparse Namespace of a command line with no option: --cli is a
\* store_true flag and False, every other dest the model follows is None
NoArgs == [cli |-> FALSE]

\* An AutoClicker used as a class, outside main()
NoProgram ==
  /\ app = "class"
  /\ default_config = DEFAULT_CONFIG
  /\ replaced = 0
  /\ since_cancel = None
  /\ cli_args = NoArgs
  /\ built = DEFAULT_CONFIG
  /\ hotkey_listener = NoListener
  /\ message = ""

\* AutoClicker.__init__
ClickerInit ==
  /\ cfg \in ClickConfigs
  /\ clicking = FALSE
  /\ stop_all = FALSE
  /\ since_started = None
  /\ clicks_done = 0
  /\ state_note = "Paused."
  /\ wpc = "while"
  /\ wtmp = 0
  /\ sleep_left = 0
  /\ cpc = "idle"
  /\ clicks_since_on = 0
  /\ intervened = FALSE
  /\ fresh = FALSE
  /\ late_clicks = 0
  /\ entered_after_stop = FALSE

\* What the claims call "the time elapsed since activation is >= D", D > 0 being
\* the configured duration (the observer late_clicks counts by it).
ElapsedAtLeastD ==
  /\ cfg.duration_sec > 0
  /\ since_started # None
  /\ since_started >= cfg.duration_sec

\* A slip in the duration branch: ">" for ">=".
DurationReached_Strict ==
  /\ cfg.duration_sec # 0
  /\ since_started # None
  /\ since_started > cfg.duration_sec

\* AutoClicker._should_stop_for_limits, its duration branch
DurationReached ==
  /\ cfg.duration_sec # 0
  /\ since_started # None
  /\ since_started >= cfg.duration_sec

\* AutoClicker._should_stop_for_limits, its count branch
CountReached ==
  /\ cfg.click_count # 0
  /\ clicks_done >= cfg.click_count

\* AutoClicker._should_stop_for_limits
should_stop_for_limits == DurationReached \/ CountReached

\* What a read of mouse_ctl.position may give: a position (ok), or an exception
\* (~ok).
PointerReads ==
  [ok : {TRUE}, x : {-2, 0, 4}, y : {-1, 0, 5}] \cup {[ok |-> FALSE, x |-> 0, y |-> 0]}

\* a failsafe that triggers on either edge of the screen
failsafe_triggered_either(pos) ==
  IF ~cfg.failsafe_corner_stop THEN FALSE
  ELSE IF ~pos.ok THEN FALSE
  ELSE pos.x <= 0 \/ pos.y <= 0

\* AutoClicker._failsafe_triggered, for one read of the pointer position
failsafe_triggered(pos) ==
  IF ~cfg.failsafe_corner_stop THEN FALSE
  ELSE IF ~pos.ok THEN FALSE
  ELSE pos.x <= 0 /\ pos.y <= 0

\* The delays AutoClicker._sleep_interval may sleep: base + uniform(-jitter, jitter),
\* clamped
SleepDelays ==
  IF cfg.jitter_sec # 0 /\ cfg.jitter_sec > 0
  THEN {clamp_nonnegative(cfg.interval_sec + j) : j \in (0 - cfg.jitter_sec)..cfg.jitter_sec}
  ELSE {clamp_nonnegative(cfg.interval_sec)}

\* time.sleep(0.05) of the idle poll, in ticks
IdlePoll == 1

\* ---- the worker thread: AutoClicker._run, one action per step of the loop

\* "while not self._stop_all.is_set()"
W_While ==
  /\ UNCHANGED <<mvars, avars, entered_after_stop>>
  /\ wpc = "while"
  /\ wpc' = IF stop_all THEN "exited" ELSE "if_clicking"
  /\ UNCHANGED <<cfg, clicking, stop_all, since_started, clicks_done, state_note,
                 wtmp, sleep_left, cpc, clicks_since_on, intervened, fresh, late_clicks>>

\* a worker that starts every cycle without looking at the clicking flag
W_IfClicking_Unchecked ==
  /\ UNCHANGED <<mvars, avars, entered_after_stop>>
  /\ wpc = "if_clicking"
  /\ wpc' = "failsafe"
  /\ UNCHANGED <<cfg, clicking, stop_all, since_started, clicks_done, state_note,
                 wtmp, sleep_left, cpc, clicks_since_on, intervened, fresh, late_clicks>>

\* "if not self._clicking.is_set(): time.sleep(0.05); continue"
W_IfClicking ==
  /\ UNCHANGED <<mvars, avars>>
  /\ wpc = "if_clicking"
  /\ IF clicking
       THEN wpc' = "failsafe" /\ UNCHANGED sleep_left
       ELSE wpc' = "idle_sleep" /\ sleep_left' = IdlePoll
  /\ entered_after_stop' = (entered_after_stop \/ (clicking /\ stop_all /\ cpc # "s_clear"))
  /\ UNCHANGED <<cfg, clicking, stop_all, since_started, clicks_done, state_note,
                 wtmp, cpc, clicks_since_on, intervened, fresh, late_clicks>>

\* the end of a time.sleep of the worker (idle poll or _sleep_interval)
W_Wake ==
  /\ UNCHANGED <<mvars, avars, entered_after_stop>>
  /\ wpc \in {"idle_sleep", "sleeping"}
  /\ sleep_left = 0
  /\ wpc' = "while"
  /\ UNCHANGED <<cfg, clicking, stop_all, since_started, clicks_done, state_note,
                 wtmp, sleep_left, cpc, clicks_since_on, intervened, fresh, late_clicks>>

\* "if self._failsafe_triggered():", with the pointer position read there
W_FailsafeRead(pos) ==
  /\ UNCHANGED <<mvars, avars, entered_after_stop>>
  /\ wpc = "failsafe"
  /\ IF failsafe_triggered(pos)
       THEN /\ wpc' = "failsafe_clear"
            /\ state_note' = "Failsafe triggered: mouse moved to (0, 0)."
            /\ intervened' = TRUE
       ELSE /\ wpc' = "limits"
            /\ UNCHANGED <<state_note, intervened>>
  /\ UNCHANGED <<cfg, clicking, stop_all, since_started, clicks_done,
                 wtmp, sleep_left, cpc, clicks_since_on, fresh, late_clicks>>

W_Failsafe == \E pos \in PointerReads : W_FailsafeRead(pos)

\* "if self._should_stop_for_limits():"
W_Limits ==
  /\ UNCHANGED <<mvars, avars, entered_after_stop>>
  /\ wpc = "limits"
  /\ IF should_stop_for_limits
       THEN /\ wpc' = "limits_clear"
            /\ state_note' = "Stopped: click/duration limit reached."
            /\ intervened' = (intervened \/ DurationReached)
       ELSE /\ wpc' = "do_click"
            /\ UNCHANGED <<state_note, intervened>>
  /\ UNCHANGED <<cfg, clicking, stop_all, since_started, clicks_done,
                 wtmp, sleep_left, cpc, clicks_since_on, fresh, late_clicks>>

\* "self._clicking.clear(); continue" of the failsafe branch and of the limit branch
W_Clear ==
  /\ UNCHANGED <<mvars, avars, entered_after_stop>>
  /\ wpc \in {"failsafe_clear", "limits_clear"}
  /\ clicking' = FALSE
  /\ wpc' = "while"
  /\ UNCHANGED <<cfg, stop_all, since_started, clicks_done, state_note,
                 wtmp, sleep_left, cpc, clicks_since_on, intervened, fresh, late_clicks>>

\* _do_click: "self.mouse_ctl.click(...)"
W_Click ==
  /\ UNCHANGED <<mvars, avars, entered_after_stop>>
  /\ wpc = "do_click"
  /\ wpc' = "incr_load"
  /\ clicks_since_on' = Min(clicks_since_on + 1, MaxClicks)
  /\ fresh' = FALSE
  /\ late_clicks' = IF ElapsedAtLeastD THEN Min(late_clicks + 1, 2) ELSE late_clicks
  /\ UNCHANGED <<cfg, clicking, stop_all, since_started, clicks_done, state_note,
                 wtmp, sleep_left, cpc, intervened>>

\* _do_click: "self._clicks_done += 1", the load
W_IncrLoad ==
  /\ UNCHANGED <<mvars, avars, entered_after_stop>>
  /\ wpc = "incr_load"
  /\ wtmp' = clicks_done
  /\ wpc' = "incr_store"
  /\ UNCHANGED <<cfg, clicking, stop_all, since_started, clicks_done, state_note,
                 sleep_left, cpc, clicks_since_on, intervened, fresh, late_clicks>>

\* _do_click: "self._clicks_done += 1", the store
W_IncrStore ==
  /\ UNCHANGED <<mvars, avars, entered_after_stop>>
  /\ wpc = "incr_store"
  /\ clicks_done' = Min(wtmp + 1, MaxClicks)
  /\ wtmp' = 0
  /\ wpc' = "sleep_interval"
  /\ UNCHANGED <<cfg, clicking, stop_all, since_started, state_note,
                 sleep_left, cpc, clicks_since_on, intervened, fresh, late_clicks>>

\* _sleep_interval: the delay is drawn and time.sleep begins
W_SleepInterval ==
  /\ UNCHANGED <<mvars, avars, entered_after_stop>>
  /\ wpc = "sleep_interval"
  /\ \E d \in SleepDelays : sleep_left' = d
  /\ wpc' = "sleeping"
  /\ UNCHANGED <<cfg, clicking, stop_all, since_started, clicks_done, state_note,
                 wtmp, cpc, clicks_since_on, intervened, fresh, late_clicks>>

\* ---- the controlling thread: toggle() and stop(), one action per statement

\* toggle() is called: "if self._clicking.is_set():"
T_Call ==
  /\ UNCHANGED <<mvars, avars, entered_after_stop>>
  /\ cpc = "idle"
  /\ cpc' = IF clicking THEN "t_clear" ELSE "t_started"
  /\ intervened' = TRUE
  /\ fresh' = FALSE
  /\ UNCHANGED <<cfg, clicking, stop_all, since_started, clicks_done, state_note,
                 wpc, wtmp, sleep_left, clicks_since_on, late_clicks>>

\* toggle(): "self._clicking.clear()" and the note
T_Clear ==
  /\ UNCHANGED <<mvars, avars, entered_after_stop>>
  /\ cpc = "t_clear"
  /\ clicking' = FALSE
  /\ state_note' = "Paused by user."
  /\ cpc' = "idle"
  /\ UNCHANGED <<cfg, stop_all, since_started, clicks_done,
                 wpc, wtmp, sleep_left, clicks_since_on, intervened, fresh, late_clicks>>

\* toggle(): "self._started_at = time.time()"
T_Started ==
  /\ UNCHANGED <<mvars, avars, entered_after_stop>>
  /\ cpc = "t_started"
  /\ since_started' = 0
  /\ late_clicks' = 0
  /\ cpc' = "t_reset"
  /\ UNCHANGED <<cfg, clicking, stop_all, clicks_done, state_note,
                 wpc, wtmp, sleep_left, clicks_since_on, intervened, fresh>>

\* toggle(): "self._clicks_done = 0"
T_Reset ==
  /\ UNCHANGED <<mvars, avars, entered_after_stop>>
  /\ cpc = "t_reset"
  /\ clicks_done' = 0
  /\ cpc' = "t_set"
  /\ UNCHANGED <<cfg, clicking, stop_all, since_started, state_note,
                 wpc, wtmp, sleep_left, clicks_since_on, intervened, fresh, late_clicks>>

\* toggle(): "self._clicking.set()" and the note; toggle() returns
T_Set ==
  /\ UNCHANGED <<mvars, avars, entered_after_stop>>
  /\ cpc = "t_set"
  /\ clicking' = TRUE
  /\ state_note' = "Clicking is active."
  /\ cpc' = "idle"
  /\ clicks_since_on' = 0
  /\ intervened' = FALSE
  /\ fresh' = TRUE
  /\ UNCHANGED <<cfg, stop_all, since_started, clicks_done,
                 wpc, wtmp, sleep_left, late_clicks>>

\* stop() is called: "self._stop_all.set()"
S_Call ==
  /\ UNCHANGED <<mvars, avars, entered_after_stop>>
  /\ cpc = "idle"
  /\ stop_all' = TRUE
  /\ cpc' = "s_clear"
  /\ intervened' = TRUE
  /\ fresh' = FALSE
  /\ UNCHANGED <<cfg, clicking, since_started, clicks_done, state_note,
                 wpc, wtmp, sleep_left, clicks_since_on, late_clicks>>

\* stop(): "self._clicking.clear()" and the note
S_Clear ==
  /\ UNCHANGED <<mvars, avars, entered_after_stop>>
  /\ cpc = "s_clear"
  /\ clicking' = FALSE
  /\ state_note' = "Stopped."
  /\ cpc' = "idle"
  /\ UNCHANGED <<cfg, stop_all, since_started, clicks_done,
                 wpc, wtmp, sleep_left, clicks_since_on, intervened, fresh, late_clicks>>

\* One tick of time: every running sleep and the age of _started_at advance.
ClickerTick ==
  /\ UNCHANGED <<mvars, avars, entered_after_stop>>
  /\ since_started' = IF since_started = None THEN None
                      ELSE Min(since_started + 1, MaxElapsed)
  /\ sleep_left' = Max(sleep_left - 1, 0)
  /\ UNCHANGED <<cfg, clicking, stop_all, clicks_done, state_note,
                 wpc, wtmp, cpc, clicks_since_on, intervened, fresh, late_clicks>>

Worker ==
  \/ W_While \/ W_IfClicking \/ W_Wake \/ W_Failsafe \/ W_Limits \/ W_Clear
  \/ W_Click \/ W_IncrLoad \/ W_IncrStore \/ W_SleepInterval

Controller ==
  \/ T_Call \/ T_Clear \/ T_Started \/ T_Reset \/ T_Set \/ S_Call \/ S_Clear

ClickerNext == (Worker \/ Controller \/ ClickerTick) /\ UNCHANGED <<since_cancel, rvars>>

\* The driver's steps that neither cancel, nor activate, nor click
OtherSteps ==
  \/ W_While \/ W_IfClicking \/ W_Wake \/ W_Failsafe \/ W_Limits \/ W_Clear
  \/ W_IncrLoad \/ W_IncrStore \/ W_SleepInterval
  \/ T_Call \/ T_Started \/ T_Reset \/ S_Call \/ ClickerTick

\* The driver with the clicks since the last cancellation counted: a toggle() to
\* idle that returns starts the count unless a stop() did, a stop() that returns
\* starts it, a toggle() that activates ends it unless a stop() started it
CancelSteps ==
  \/ T_Clear /\ since_cancel' = (IF stop_all THEN since_cancel ELSE 0)
  \/ S_Clear /\ since_cancel' = 0
  \/ T_Set /\ since_cancel' = (IF stop_all THEN since_cancel ELSE None)
  \/ W_Click /\ since_cancel' = (IF since_cancel = None THEN None
                                  ELSE Min(since_cancel + 1, 2))
  \/ OtherSteps /\ UNCHANGED since_cancel

CancelNext == CancelSteps /\ UNCHANGED rvars

\* ---------------------------------------------- AutoClicker.py: the program

\* The keys of BUTTON_MAP
BUTTON_MAP == {"left", "right", "middle"}

\* A merge that takes every key of the overrides.
merge_config_every_key(base, overrides) ==
  [k \in DOMAIN base \cup DOMAIN overrides |->
     IF k \in DOMAIN overrides THEN overrides[k] ELSE base[k]]

\* merge_config: asdict(base), then "if k in data: data[k] = v"
merge_config(base, overrides) ==
  [k \in DOMAIN base |-> IF k \in DOMAIN overrides THEN overrides[k] ELSE base[k]]

\* JSON objects that --config may name, by path: one with a recognized and an
\* unknown key, one with unknown keys only, one with a negative duration, one
\* with a button that does not exist, one that makes the quit hotkey <f8>, one
\* that sets the failsafe, the jitter and the click count
ConfigFilesOnDisk ==
  [mixed   |-> [interval_sec |-> 0, bogus |-> 5],
   unknown |-> [bogus |-> 5, comment |-> 6],
   negative |-> [duration_sec |-> -1],
   button  |-> [button |-> "side"],
   keys    |-> [quit_key |-> "<f8>"],
   failsafe |-> [failsafe_corner_stop |-> TRUE, jitter_sec |-> 1, click_count |-> 2]]

\* load_config_file
load_config_file(path) == ConfigFilesOnDisk[path]

\* build_config_from_args, lines 219-245: the ClickConfig field each dest sets
ArgField ==
  [interval |-> "interval_sec", jitter |-> "jitter_sec", count |-> "click_count",
   duration |-> "duration_sec", button |-> "button",
   toggle_key |-> "toggle_key", quit_key |-> "quit_key"]

\* build_config_from_args, lines 218-245: the dict cli_overrides.  A dest with a
\* value gives that value; the flag --no-failsafe gives failsafe_corner_stop = False.
cli_overrides(args) ==
  [k \in {ArgField[d] : d \in DOMAIN args \cap DOMAIN ArgField}
          \cup (IF "no_failsafe" \in DOMAIN args THEN {"failsafe_corner_stop"} ELSE {}) |->
     IF k = "failsafe_corner_stop" THEN FALSE
     ELSE args[CHOOSE d \in DOMAIN ArgField : ArgField[d] = k]]

\* a resolution that lets the config file override the command line
build_config_file_last(args) ==
  LET from_cli == merge_config(default_config, cli_overrides(args))
  IN IF "config" \in DOMAIN args
     THEN merge_config(from_cli, load_config_file(args.config))
     ELSE from_cli

\* build_config_from_args
build_config_from_args(args) ==
  LET from_file == IF "config" \in DOMAIN args
                   THEN merge_config(default_config, load_config_file(args.config))
                   ELSE default_config
  IN merge_config(from_file, cli_overrides(args))

\* Command lines: parse_args gives a Namespace for each
CommandLines ==
  {[cli |-> FALSE],
   [cli |-> TRUE],
   [cli |-> TRUE, count |-> -1],
   [cli |-> TRUE, toggle_key |-> "<esc>"],
   [cli |-> FALSE, quit_key |-> "<f8>"],
   [cli |-> FALSE, config |-> "mixed"],
   [cli |-> TRUE, config |-> "mixed", interval |-> 1, count |-> 1],
   [cli |-> TRUE, config |-> "unknown"],
   [cli |-> TRUE, config |-> "negative"],
   [cli |-> FALSE, config |-> "button"],
   [cli |-> TRUE, config |-> "keys", toggle_key |-> "<f6>"],
   [cli |-> TRUE, config |-> "failsafe", no_failsafe |-> TRUE, jitter |-> 0]}

\* keyboard.HotKey.parse accepts these of the strings used here
ValidHotkeys == {"<f6>", "<f8>", "<esc>"}

\* is_valid_hotkey
is_valid_hotkey(hotkey) == hotkey \in ValidHotkeys

\* No AutoClicker was constructed.
NoDriver ==
  /\ cfg = DEFAULT_CONFIG
  /\ clicking = FALSE
  /\ stop_all = FALSE
  /\ since_started = None
  /\ clicks_done = 0
  /\ state_note = ""
  /\ wpc = "none"
  /\ wtmp = 0
  /\ sleep_left = 0
  /\ cpc = "idle"
  /\ clicks_since_on = 0
  /\ intervened = FALSE
  /\ fresh = FALSE
  /\ late_clicks = 0
  /\ entered_after_stop = FALSE

\* AutoClicker(c) and start(): a new instance and its worker thread.  "then" is
\* where the constructing thread goes next: "idle", or "t_started" when it calls
\* toggle() on the new instance right away.
Construct(c, then) ==
  /\ cfg' = c
  /\ clicking' = FALSE
  /\ stop_all' = FALSE
  /\ since_started' = None
  /\ clicks_done' = 0
  /\ state_note' = "Paused."
  /\ wpc' = "while"
  /\ wtmp' = 0
  /\ sleep_left' = 0
  /\ cpc' = then
  /\ clicks_since_on' = 0
  /\ intervened' = (then # "idle")
  /\ fresh' = FALSE
  /\ late_clicks' = 0
  /\ entered_after_stop' = FALSE

\* AutoClicker.stop(), called by a thread that nothing interrupts on its way
Stopped ==
  /\ stop_all' = TRUE
  /\ clicking' = FALSE
  /\ state_note' = "Stopped."
  /\ intervened' = TRUE
  /\ fresh' = FALSE
  /\ UNCHANGED <<cfg, since_started, clicks_done, wpc, wtmp, sleep_left, cpc,
                 clicks_since_on, late_clicks, entered_after_stop>>

\* A registered keyboard.GlobalHotKeys: a dict keeps one entry per key, so with
\* equal strings the quit handler replaces the toggle handler
Registered(toggle_key, quit_key) ==
  [on |-> TRUE, toggle |-> toggle_key, quit |-> quit_key]

\* main(), lines 694-695: parse_args and build_config_from_args.  merge_config
\* works on asdict(base), a copy, and returns a new ClickConfig: the default
\* object is read only.
BuildConfig ==
  /\ app = "main"
  /\ built' = build_config_from_args(cli_args)
  /\ app' = "built"
  /\ UNCHANGED <<cvars, mvars, cli_args, default_config, replaced, hotkey_listener, message>>

\* run_cli, lines 250-284: the driver is constructed and started, then the
\* hotkeys are registered; AutoClicker.__init__ raises on an unknown button and
\* GlobalHotKeys on a string that does not parse
RunCli ==
  /\ app = "built"
  /\ cli_args.cli
  /\ UNCHANGED <<mvars, cli_args, default_config, replaced, built>>
  /\ IF built.button \notin BUTTON_MAP
     THEN /\ app' = "exited"
          /\ message' = "ValueError"
          /\ UNCHANGED <<cvars, hotkey_listener>>
     ELSE /\ Construct(built, "idle")
          /\ IF is_valid_hotkey(built.toggle_key) /\ is_valid_hotkey(built.quit_key)
             THEN /\ hotkey_listener' = Registered(built.toggle_key, built.quit_key)
                  /\ app' = "cli"
                  /\ UNCHANGED message
             ELSE /\ app' = "exited"
                  /\ message' = "ValueError"
                  /\ UNCHANGED hotkey_listener

\* AutoClickerGUI.__init__, lines 297-322: the form is filled from cfg, the driver
\* is constructed and started
GuiConstruct ==
  /\ app = "built"
  /\ ~cli_args.cli
  /\ UNCHANGED <<mvars, cli_args, default_config, replaced, built, hotkey_listener>>
  /\ IF built.button \notin BUTTON_MAP
     THEN /\ app' = "exited"
          /\ message' = "ValueError"
          /\ UNCHANGED cvars
     ELSE /\ Construct(built, "idle")
          /\ app' = "gui_init"
          /\ UNCHANGED message

\* _set_hotkeys(toggle_key, quit_key): whether it returns True, the listener it
\* leaves and the message box it shows.  registers: GlobalHotKeys(...).start()
\* raises nothing.
set_hotkeys(toggle_key, quit_key, registers) ==
  IF toggle_key = quit_key
  THEN [ok |-> FALSE, listener |-> hotkey_listener, message |-> "Invalid hotkeys"]
  ELSE IF ~is_valid_hotkey(toggle_key) \/ ~is_valid_hotkey(quit_key)
  THEN [ok |-> FALSE, listener |-> hotkey_listener, message |-> "Invalid hotkey"]
  ELSE IF ~registers
  THEN [ok |-> FALSE, listener |-> NoListener, message |-> "Invalid hotkey"]
  ELSE [ok |-> TRUE, listener |-> Registered(toggle_key, quit_key), message |-> message]

\* AutoClickerGUI.__init__, lines 334-340: the hotkeys of the initial
\* configuration are set; on a refusal the driver is stopped and the window
\* destroyed
GuiSetHotkeys(registers) ==
  /\ app = "gui_init"
  /\ UNCHANGED <<mvars, cli_args, default_config, replaced, built>>
  /\ LET set == set_hotkeys(built.toggle_key, built.quit_key, registers)
     IN /\ hotkey_listener' = set.listener
        /\ IF set.ok
           THEN /\ app' = "gui"
                /\ UNCHANGED <<cvars, message>>
           ELSE /\ Stopped
                /\ app' = "exited"
                /\ message' = "RuntimeError"

\* What the user may have typed into the form when Apply is pressed.  A numeric
\* entry is <<"num", n>> when float() / int() read n from it and <<"text", s>>
\* when they raise ValueError.
ValidForm ==
  [interval |-> <<"num", 1>>, jitter |-> <<"num", 0>>, count |-> <<"num", 0>>,
   duration |-> <<"num", 0>>, button |-> "left",
   toggle_key |-> "<f8>", quit_key |-> "<esc>"]

Forms ==
  {ValidForm,
   [ValidForm EXCEPT !.count = <<"num", 1>>],
   [ValidForm EXCEPT !.button = " Right", !.toggle_key = "<f6>"],
   [ValidForm EXCEPT !.interval = <<"text", "fast">>],
   [ValidForm EXCEPT !.count = <<"num", -1>>],
   [ValidForm EXCEPT !.button = "side"],
   [ValidForm EXCEPT !.quit_key = ""],
   [ValidForm EXCEPT !.toggle_key = "<esc>"],
   [ValidForm EXCEPT !.toggle_key = "f8>"]}

\* str.strip().lower() on the strings used here
strip_lower(text) == IF text = " Right" THEN "right" ELSE text

\* _read_config, lines 601-634: the message box it shows before it returns None,
\* "" when it returns a ClickConfig
read_config_error(form) ==
  IF \E f \in {"interval", "jitter", "count", "duration"} : form[f][1] # "num"
  THEN "Invalid input: numbers"
  ELSE IF \E f \in {"interval", "jitter", "count", "duration"} : form[f][2] < 0
  THEN "Invalid input: negative"
  ELSE IF strip_lower(form.button) \notin BUTTON_MAP
  THEN "Invalid input: button"
  ELSE IF form.toggle_key = "" \/ form.quit_key = ""
  THEN "Invalid input: hotkeys required"
  ELSE IF form.toggle_key = form.quit_key
  THEN "Invalid input: hotkeys equal"
  ELSE IF ~is_valid_hotkey(form.toggle_key) \/ ~is_valid_hotkey(form.quit_key)
  THEN "Invalid hotkey"
  ELSE ""

\* _read_config, lines 636-650: the ClickConfig it returns
read_config(form) ==
  [interval_sec |-> form.interval[2], jitter_sec |-> form.jitter[2],
   click_count |-> form.count[2], duration_sec |-> form.duration[2],
   failsafe_corner_stop |-> TRUE,
   button |-> strip_lower(form.button),
   toggle_key |-> form.toggle_key, quit_key |-> form.quit_key]

\* an on_apply that leaves the driver it replaces as it is
stop_all_untouched(flag) == flag

\* on_apply, line 659: "self._clicker.stop()" sets the _stop_all of the driver
\* about to be replaced, whatever it was
stop_all_after_stop(flag) == TRUE

\* An on_apply that ends in an error: _read_config or _set_hotkeys refuses
ApplyFails(form, registers) ==
  \/ read_config_error(form) # ""
  \/ ~set_hotkeys(form.toggle_key, form.quit_key, registers).ok

\* on_apply (the Apply button).  It runs on the Tk main thread, as on_toggle and
\* on_quit do, so none of them is halfway when it starts.
OnApply(form, registers) ==
  /\ app = "gui"
  /\ cpc = "idle"
  /\ UNCHANGED <<mvars, cli_args, built, app, default_config>>
  /\ IF read_config_error(form) # ""
     THEN /\ message' = read_config_error(form)
          /\ UNCHANGED <<cvars, hotkey_listener, replaced>>
     ELSE LET c == read_config(form)
              set == set_hotkeys(c.toggle_key, c.quit_key, registers)
          IN /\ hotkey_listener' = set.listener
             /\ IF ~set.ok
                THEN /\ message' = set.message
                     /\ UNCHANGED <<cvars, replaced>>
                ELSE /\ message' = IF clicking /\ ~stop_all THEN message
                                   ELSE "Settings applied."
                     /\ replaced' = replaced + (IF stop_all_after_stop(stop_all)
                                                 THEN 0 ELSE 1)
                     /\ Construct(c, IF clicking /\ ~stop_all THEN "t_started"
                                     ELSE "idle")

\* on_quit of the GUI (quit hotkey or closing the window) and of run_cli (quit
\* hotkey, then the stop() after listener.join()): the listener ends, the driver
\* is stopped, the program exits
Quit ==
  /\ app \in {"cli", "gui"}
  /\ cpc = "idle"
  /\ UNCHANGED <<mvars, cli_args, default_config, replaced, built, message>>
  /\ hotkey_listener' = NoListener
  /\ Stopped
  /\ app' = "exited"

\* toggle(): from the toggle hotkey while it is registered, and from the Start /
\* Pause button of the window
Toggle ==
  /\ \/ app = "gui"
     \/ app = "cli" /\ hotkey_listener.toggle # hotkey_listener.quit
  /\ T_Call \/ T_Clear \/ T_Started \/ T_Reset \/ T_Set

\* The worker thread of the driver, while the process lives
DriverRuns ==
  /\ app \in {"gui_init", "cli", "gui"}
  /\ Worker \/ ClickerTick

ProgramSteps ==
  \/ BuildConfig \/ RunCli \/ GuiConstruct
  \/ \E registers \in BOOLEAN : GuiSetHotkeys(registers)
  \/ \E form \in Forms, registers \in BOOLEAN : OnApply(form, registers)
  \/ Quit \/ Toggle \/ DriverRuns

ProgramNext == ProgramSteps /\ UNCHANGED <<since_cancel, rvars>>

\* --------------------------------------------------------------- Macros.py
\* Python values are tagged with their type: <<"int", n>>, <<"float", n>>,
\* <<"str", s>>, <<"bool", b>>, <<"none">>.  An action is a dict: a record from
\* field names to tagged values.  A float counts ticks.

Devices == {"mouse", "keyboard"}

\* The dict _on_key_press builds for a press of the character key "a"
KeyPressAction ==
  [key_type |-> <<"str", "char">>, value |-> <<"str", "a">>,
   kind |-> <<"str", "key">>, phase |-> <<"str", "press">>]

\* The dict _on_mouse_click builds for a press of the left button at (3, 4)
MouseClickAction ==
  [kind |-> <<"str", "mouse_click">>, x |-> <<"int", 3>>, y |-> <<"int", 4>>,
   button |-> <<"str", "left">>, pressed |-> <<"bool", TRUE>>]

\* The events a listener may deliver, per device
DeviceEvents(dev) ==
  IF dev = "mouse" THEN {MouseClickAction} ELSE {KeyPressAction}

\* No dict: the value of a callback's local "action" outside _record_event, and of
\* a UIEvent's payload when it carries no action
NoAction == [kind |-> <<"none">>]

\* MacroApp._event_time, then round(..., 6): a whole number of ticks is its own
\* rounding
event_time == Max(0, rec_age)

\* action["t"] = round(self._event_time(), 6)
Stamped(action) == [k \in DOMAIN action \cup {"t"} |->
                      IF k = "t" THEN <<"float", event_time>> ELSE action[k]]

\* ---- JSON text, as json.dumps writes it and json.loads reads it.  A number
\* token keeps whether it is written with a fraction ("1.0") or not ("1").
\* The text of a file is a record: wellformed (it parses), top ("object",
\* "array" or "scalar"), keys (of a top-level object), actions_is_array (the
\* value under "actions" is an array) and items (the elements of the array under
\* "actions", or of the top-level array), each item being a JSON object or not.

\* json.dumps of one value
DumpValue(v) ==
  CASE v[1] = "int"   -> <<"number", v[2], FALSE>>
    [] v[1] = "float" -> <<"number", v[2], TRUE>>
    [] v[1] = "str"   -> <<"string", v[2]>>
    [] v[1] = "bool"  -> IF v[2] THEN <<"true">> ELSE <<"false">>
    [] OTHER          -> <<"null">>

\* json.loads of one token
LoadValue(j) ==
  CASE j[1] = "number" -> IF j[3] THEN <<"float", j[2]>> ELSE <<"int", j[2]>>
    [] j[1] = "string" -> <<"str", j[2]>>
    [] j[1] = "true"   -> <<"bool", TRUE>>
    [] j[1] = "false"  -> <<"bool", FALSE>>
    [] OTHER           -> <<"none">>

\* json.dumps / json.loads of a dict
DumpDict(d) == [k \in DOMAIN d |-> DumpValue(d[k])]
LoadDict(o) == [k \in DOMAIN o |-> LoadValue(o[k])]

\* save_macro: json.dumps({"version": 1, "actions": self.actions}, indent=2)
SaveText(acts) ==
  [wellformed |-> TRUE, top |-> "object", keys |-> {"version", "actions"},
   actions_is_array |-> TRUE,
   items |-> [i \in 1..Len(acts) |-> [is_object |-> TRUE, members |-> DumpDict(acts[i])]]]

\* No file was saved yet.
NoFile ==
  [wellformed |-> FALSE, top |-> "none", keys |-> {}, actions_is_array |-> FALSE,
   items |-> <<>>]

\* Files a user may pick that this program did not write: a bare array holding an
\* action stamped later than any recording here stamps, a number, an action with
\* no "t" and a mouse move whose "x" is no number; an array whose second action
\* has a string for "t"; an array of one action with no "t"; an object with no
\* "actions" key; an object whose "actions" is no array; text that is no JSON.
ExternalFiles ==
  [bare |->
     [wellformed |-> TRUE, top |-> "array", keys |-> {}, actions_is_array |-> FALSE,
      items |-> << [is_object |-> TRUE,
                    members |-> DumpDict(KeyPressAction) @@ [t |-> <<"number", MaxWait, TRUE>>]],
                   [is_object |-> FALSE, members |-> [scalar |-> <<"number", 7, FALSE>>]],
                   [is_object |-> TRUE, members |-> DumpDict(MouseClickAction)],
                   [is_object |-> TRUE,
                    members |-> [kind |-> <<"string", "mouse_move">>,
                                 x |-> <<"string", "far">>, y |-> <<"number", 4, FALSE>>,
                                 t |-> <<"number", MaxWait, TRUE>>]] >>],
   badtime |->
     [wellformed |-> TRUE, top |-> "array", keys |-> {}, actions_is_array |-> FALSE,
      items |-> << [is_object |-> TRUE,
                    members |-> DumpDict(KeyPressAction) @@ [t |-> <<"number", 0, TRUE>>]],
                   [is_object |-> TRUE,
                    members |-> DumpDict(KeyPressAction) @@ [t |-> <<"string", "soon">>]],
                   [is_object |-> TRUE,
                    members |-> DumpDict(KeyPressAction) @@ [t |-> <<"number", 1, TRUE>>]] >>],
   untimed |->
     [wellformed |-> TRUE, top |-> "array", keys |-> {}, actions_is_array |-> FALSE,
      items |-> << [is_object |-> TRUE, members |-> DumpDict(MouseClickAction)] >>],
   nokey |->
     [wellformed |-> TRUE, top |-> "object", keys |-> {"version"},
      actions_is_array |-> FALSE, items |-> <<>>],
   notlist |->
     [wellformed |-> TRUE, top |-> "object", keys |-> {"version", "actions"},
      actions_is_array |-> FALSE, items |-> <<>>],
   garbage |->
     [wellformed |-> FALSE, top |-> "scalar", keys |-> {}, actions_is_array |-> FALSE,
      items |-> <<>>]]

\* load_macro, lines 533-536: whether reading the text raises
LoadRaises(text) ==
  \/ ~text.wellformed
  \/ text.top = "object" /\ "actions" \notin text.keys
  \/ text.top = "object" /\ ~text.actions_is_array
  \/ text.top \notin {"object", "array"}

RECURSIVE DictsOf(_)
\* [a for a in actions if isinstance(a, dict)]
DictsOf(items) ==
  IF items = <<>> THEN <<>>
  ELSE LET rest == DictsOf(Tail(items))
       IN IF Head(items).is_object
          THEN <<LoadDict(Head(items).members)>> \o rest
          ELSE rest

\* A slip in the loader's filter: the last element is dropped.
LoadedActions_DropLast(text) ==
  LET all == DictsOf(text.items)
  IN IF all = <<>> THEN all ELSE SubSeq(all, 1, Len(all) - 1)

\* load_macro, line 537: the list it assigns to self.actions
LoadedActions(text) == DictsOf(text.items)

\* MacroApp._format_action(idx, action): the listbox row
format_action(idx, action) == [idx |-> idx, action |-> action]

\* What ":.3f" formats: a float, an int or a bool
Formattable(v) == v[1] \in {"float", "int", "bool"}

\* _format_action, line 446: f"+{t:08.3f}s" raises on a "t" that is no number
FormatRaises(action) ==
  /\ "t" \in DOMAIN action
  /\ ~Formattable(action["t"])

\* load_macro, lines 543-544: some _format_action of the loop raises
FillRaises(acts) == \E i \in 1..Len(acts) : FormatRaises(acts[i])

RECURSIVE RowsFrom(_, _)
\* load_macro, lines 543-544: enumerate(self.actions, start=1), the rows inserted
\* until the loop ends or _format_action raises
RowsFrom(acts, idx) ==
  IF acts = <<>> \/ FormatRaises(Head(acts)) THEN <<>>
  ELSE <<format_action(idx, Head(acts))>> \o RowsFrom(Tail(acts), idx + 1)

\* _execute_action raises: int() of an "x", "y", "dx" or "dy" that is no number.
\* (A string that spells a number converts; none of the strings here does.)
ExecRaises(action) ==
  LET kind == IF "kind" \in DOMAIN action THEN action["kind"] ELSE <<"none">>
      read == IF kind = <<"str", "mouse_move">> THEN {"x", "y"}
              ELSE IF kind = <<"str", "mouse_scroll">> THEN {"dx", "dy"}
              ELSE {}
  IN \E k \in read \cap DOMAIN action : ~Formattable(action[k])

\* float(action.get("t", 0.0)) raises
TimeRaises(action) ==
  /\ "t" \in DOMAIN action
  /\ action["t"][1] \notin {"float", "int", "bool"}

\* float(action.get("t", 0.0))
TimeOf(action) ==
  IF "t" \notin DOMAIN action THEN 0
  ELSE IF action["t"][1] = "bool" THEN (IF action["t"][2] THEN 1 ELSE 0)
  ELSE action["t"][2]

\* A playback thread that does not exist.
NoWorker ==
  [pc |-> "none", list |-> <<>>, i |-> 0, prev_t |-> 0, t |-> 0, wait_left |-> 0,
   log |-> <<>>, since_exec |-> 0, gaps_ok |-> TRUE, cancelled_wait |-> 0,
   result |-> "", waited |-> 0]

\* _refresh_feedback, lines 225-226: self.actions[-1]["t"] raises when the last
\* action has no "t", and f"{duration:.3f}" when its "t" is no number
RefreshRaises(acts) ==
  /\ acts # <<>>
  /\ LET last == acts[Len(acts)]
     IN "t" \notin DOMAIN last \/ ~Formattable(last["t"])

\* _refresh_feedback, lines 227-257: the buttons it leaves enabled
refresh_feedback(rec, play, acts) ==
  IF rec THEN {"stop"}
  ELSE IF play THEN {"stop_play"}
  ELSE {"start", "clear", "load"} \cup (IF acts # <<>> THEN {"play", "save"} ELSE {})

\* ---- the recording options and the macro hotkeys

\* Time passes in ticks of 10 ms while the pointer moves: _on_mouse_move drops a
\* move less than 0.02 s after the last logged one (line 638), and one less than
\* 2 pixels away from it (line 643)
MoveGap == 2

MoveStep == 2

\* Where the pointer may be reported
PointerPositions == {[x |-> 0, y |-> 0], [x |-> 1, y |-> 0], [x |-> 1, y |-> 2]}

\* "self._last_move_pos = None"
NoPos == [x |-> None, y |-> None]

\* No key event yet
NoKey == ""

\* keyboard.HotKey.parse on the hotkey strings used here: the parts of the hotkey;
\* <<>> stands for the ValueError of a string that does not parse
HotKeyParse ==
  [f9 |-> <<"f9">>, f10 |-> <<"f10">>, f11 |-> <<"f11">>, f12 |-> <<"f12">>,
   a |-> <<"a">>, ctrl_a |-> <<"ctrl", "a">>,
   bad |-> <<>>]

\* The text of a hotkey entry after .strip(): "" when nothing is left, else the
\* hotkey it spells (F9_upper spells <F9>, which parses as <f9> does)
EntryText ==
  [f9 |-> "<f9>", f10 |-> "<f10>", f11 |-> "<f11>", f12 |-> "<f12>", a |-> "a",
   ctrl_a |-> "<ctrl>+a", bad |-> "f9>",
   F9_upper |-> "<F9>", empty |-> ""]

\* _normalize_hotkey_text: strip, lower, no spaces
normalize_hotkey_text(entry) == IF entry = "F9_upper" THEN "<f9>" ELSE EntryText[entry]

\* keyboard.HotKey.parse(raw)
parse(entry) == IF entry = "F9_upper" THEN HotKeyParse.f9 ELSE HotKeyParse[entry]

HotkeyNames == {"record_start", "record_stop", "play_start", "play_stop"}

\* RECORD_START_HOTKEY ... PLAY_STOP_HOTKEY, the entries as __init__ fills them
DefaultHotkeys ==
  [record_start |-> "f9", record_stop |-> "f10", play_start |-> "f11", play_stop |-> "f12"]

\* What the four entries may hold when Apply Hotkeys is pressed
HotkeyEntries ==
  {DefaultHotkeys,
   [DefaultHotkeys EXCEPT !.record_start = "ctrl_a"],
   [DefaultHotkeys EXCEPT !.record_start = "a", !.record_stop = "ctrl_a"],
   [DefaultHotkeys EXCEPT !.play_start = "empty"],
   [DefaultHotkeys EXCEPT !.record_stop = "F9_upper"],
   [DefaultHotkeys EXCEPT !.record_stop = "ctrl_a", !.play_stop = "bad"]}

\* _build_hotkey_bindings, lines 319-334: the ValueError it raises, "" for none
build_hotkey_error(values) ==
  IF \E name \in HotkeyNames : EntryText[values[name]] = ""
  THEN "hotkey is required"
  ELSE IF Cardinality({normalize_hotkey_text(values[name]) : name \in HotkeyNames}) # 4
  THEN "All macro hotkeys must be unique."
  ELSE IF \E name \in HotkeyNames : parse(values[name]) = <<>>
  THEN "Invalid hotkey"
  ELSE ""

\* parts kept for every hotkey, whatever its length
suppress_parts_of_all(values) ==
  UNION {{parse(values[name])[i] : i \in 1..Len(parse(values[name]))} :
         name \in HotkeyNames}

\* _build_hotkey_bindings, lines 328-338: suppress_parts, extended with the parts
\* of the hotkeys that parse to one part
suppress_parts(values) ==
  UNION {{parse(values[name])[i] : i \in 1..Len(parse(values[name]))} :
         name \in {n \in HotkeyNames : Len(parse(values[n])) = 1}}

\* The keys the keyboard listener may deliver: a function key and a capital
\* letter
Keys == {"f10", "A"}

\* _hotkey_part_matches_key: a Key matches itself, a character its own letter
\* in either case
hotkey_part_matches_key(part, key) ==
  part = (IF key = "A" THEN "a" ELSE key)

\* _should_suppress_key
should_suppress_key(key) ==
  \E part \in hotkey_parts : hotkey_part_matches_key(part, key)

\* _serialize_key, with the kind and phase the callback adds
KeyAction(key, phase) ==
  [key_type |-> <<"str", IF key = "A" THEN "char" ELSE "special">>,
   value |-> <<"str", key>>,
   kind |-> <<"str", "key">>, phase |-> <<"str", phase>>]

\* The dict _on_mouse_move builds
MouseMoveAction(pos) ==
  [kind |-> <<"str", "mouse_move">>, x |-> <<"int", pos.x>>, y |-> <<"int", pos.y>>]

\* MacroApp.__init__, lines 59-83: the checkbox is off, no move was logged, the
\* default hotkeys are applied
OptionsInit ==
  /\ capture_moves_var = FALSE
  /\ capture_moves = FALSE
  /\ last_move_log_t = 0
  /\ last_move_pos = NoPos
  /\ hotkey_parts = suppress_parts(DefaultHotkeys)
  /\ macro_hotkeys = {EntryText[DefaultHotkeys[name]] : name \in HotkeyNames}
  /\ applied_hotkeys = DefaultHotkeys
  /\ last_key = NoKey

\* MacroApp.__init__
MacroInit ==
  /\ actions = <<>>
  /\ queue = <<>>
  /\ recording = FALSE
  /\ playing = FALSE
  /\ playback_stop = FALSE
  /\ rec_age = 0
  /\ listening = [d \in Devices |-> FALSE]
  /\ cb = [d \in Devices |-> [pc |-> "idle", action |-> NoAction]]
  /\ workers = [w \in 1..MaxWorkers |-> NoWorker]
  /\ action_list = <<>>
  /\ buttons = refresh_feedback(FALSE, FALSE, <<>>)
  /\ draining = FALSE
  /\ saved_file = NoFile
  /\ feedback = "Idle"
  /\ saved_actions = <<>>
  /\ recorded = TRUE
  /\ input_since_start = FALSE
  /\ OptionsInit

\* A call of self._refresh_feedback(): an exception at its first lines leaves
\* every button as it was
Refreshed(rec, play, acts) ==
  IF RefreshRaises(acts) THEN buttons ELSE refresh_feedback(rec, play, acts)

\* ---- the Tk main thread: one action per handler.  Tk runs its handlers one at
\* a time; none runs while _drain_queue is inside its loop, and a message box or
\* file dialog that a handler opens is taken to keep the other handlers out until
\* it is closed.

\* The refusal left out of start_recording.
start_recording_rejects_never == FALSE

\* start_recording, line 451: "if self._playing", the call is refused
start_recording_rejects == playing

\* start_recording (button or hotkey)
StartRecording ==
  /\ UNCHANGED <<cvars, avars>>
  /\ ~draining
  /\ IF start_recording_rejects
     THEN /\ feedback' = "Playback running"
          /\ UNCHANGED <<actions, queue, recording, playing, playback_stop, rec_age,
                         listening, cb, workers, action_list, buttons, draining,
                         saved_file, saved_actions, recorded, input_since_start>>
          /\ UNCHANGED rvars
     ELSE IF recording
     THEN UNCHANGED <<mvars, rvars>>
     ELSE /\ actions' = <<>>
          /\ action_list' = <<>>
          /\ rec_age' = 0
          /\ last_move_log_t' = 0
          /\ last_move_pos' = NoPos
          /\ capture_moves' = capture_moves_var
          /\ UNCHANGED <<capture_moves_var, hotkey_parts, macro_hotkeys,
                         applied_hotkeys, last_key>>
          /\ recording' = TRUE
          /\ feedback' = "Recording..."
          /\ listening' = [d \in Devices |-> TRUE]
          /\ buttons' = Refreshed(TRUE, playing, <<>>)
          /\ recorded' = TRUE
          /\ input_since_start' = FALSE
          /\ UNCHANGED <<queue, playing, playback_stop, cb, workers, draining,
                         saved_file, saved_actions>>

\* stop_recording (button or hotkey), with _stop_listeners
StopRecording ==
  /\ UNCHANGED <<cvars, avars, input_since_start>>
  /\ ~draining
  /\ IF ~recording
     THEN UNCHANGED mvars
     ELSE /\ recording' = FALSE
          /\ listening' = [d \in Devices |-> FALSE]
          /\ feedback' = "Recording stopped."
          /\ buttons' = Refreshed(FALSE, playing, actions)
          /\ UNCHANGED <<actions, queue, playing, playback_stop, rec_age, cb, workers,
                         action_list, draining, saved_file, saved_actions, recorded>>

\* clear_actions (the Clear button, while it is enabled)
ClearActions ==
  /\ UNCHANGED <<cvars, avars, input_since_start>>
  /\ ~draining
  /\ "clear" \in buttons
  /\ recording' = FALSE
  /\ listening' = IF recording THEN [d \in Devices |-> FALSE] ELSE listening
  /\ actions' = <<>>
  /\ action_list' = <<>>
  /\ feedback' = "Cleared all actions."
  /\ buttons' = Refreshed(FALSE, playing, <<>>)
  /\ UNCHANGED <<queue, playing, playback_stop, rec_age, cb, workers, draining,
                 saved_file, saved_actions, recorded>>

\* The paths the save dialog returns: "" when it is cancelled
SavePaths == {"", "saved"}

\* save_macro (the Save button, while it is enabled)
SaveMacro(path) ==
  /\ UNCHANGED <<cvars, avars, input_since_start>>
  /\ ~draining
  /\ "save" \in buttons
  /\ IF actions = <<>>
     THEN /\ feedback' = "No actions"
          /\ UNCHANGED <<saved_file, saved_actions>>
     ELSE IF path = ""
     THEN UNCHANGED <<feedback, saved_file, saved_actions>>
     ELSE /\ saved_file' = SaveText(actions)
          /\ saved_actions' = actions
          /\ feedback' = "Saved macro"
  /\ UNCHANGED <<actions, queue, recording, playing, playback_stop, rec_age, listening,
                 cb, workers, action_list, buttons, draining, recorded>>

\* The paths the open dialog returns: "" when it is cancelled
LoadPaths == {"", "saved"} \cup DOMAIN ExternalFiles

\* Path(path).read_text
ReadText(path) == IF path = "saved" THEN saved_file ELSE ExternalFiles[path]

\* load_macro (the Load button, while it is enabled).  The parse is inside the
\* try block of lines 532-540; the refill of the listbox and the refresh that
\* follow it are not, and an exception there ends the handler where it is raised.
LoadMacro(path) ==
  /\ UNCHANGED <<cvars, avars, input_since_start>>
  /\ ~draining
  /\ "load" \in buttons
  /\ recording' = FALSE
  /\ listening' = IF recording THEN [d \in Devices |-> FALSE] ELSE listening
  /\ IF path = ""
     THEN /\ feedback' = IF recording THEN "Recording stopped." ELSE feedback
          /\ buttons' = IF recording THEN Refreshed(FALSE, playing, actions)
                        ELSE buttons
          /\ UNCHANGED <<actions, action_list, recorded>>
     ELSE IF LoadRaises(ReadText(path))
     THEN /\ feedback' = "Load failed"
          /\ buttons' = IF recording THEN Refreshed(FALSE, playing, actions)
                        ELSE buttons
          /\ UNCHANGED <<actions, action_list, recorded>>
     ELSE /\ actions' = LoadedActions(ReadText(path))
          /\ action_list' = RowsFrom(actions', 1)
          /\ recorded' = FALSE
          /\ IF FillRaises(actions')
             THEN /\ feedback' = IF recording THEN "Recording stopped." ELSE feedback
                  /\ buttons' = IF recording THEN Refreshed(FALSE, playing, actions)
                                ELSE buttons
             ELSE /\ feedback' = IF path = "saved" THEN "Loaded macro: saved"
                                 ELSE "Loaded macro: external"
                  /\ buttons' = IF RefreshRaises(actions')
                                THEN (IF recording THEN Refreshed(FALSE, playing, actions)
                                      ELSE buttons)
                                ELSE refresh_feedback(FALSE, playing, actions')
  /\ UNCHANGED <<queue, playing, playback_stop, rec_age, cb, workers, draining,
                 saved_file, saved_actions>>

\* load_macro ends in an exception: one the try block of lines 532-540 catches
\* and reports, or one that _format_action or _refresh_feedback raises after it
LoadFails(path) ==
  /\ path # ""
  /\ LET text == ReadText(path)
     IN \/ LoadRaises(text)
        \/ FillRaises(LoadedActions(text))
        \/ RefreshRaises(LoadedActions(text))

\* The return of line 556 left out of play_macro.
play_macro_ignored_never == FALSE

\* play_macro, line 556: "if self._playing: return"
play_macro_ignored == playing

\* The thread play_macro starts, before its first statement
NewWorker == [NoWorker EXCEPT !.pc = "start"]

\* play_macro (button or hotkey).  The thread is created after the call of
\* _refresh_feedback (lines 565-567): when that call raises, no thread starts.
PlayMacro ==
  /\ UNCHANGED <<cvars, avars, input_since_start>>
  /\ ~draining
  /\ IF recording
     THEN /\ feedback' = "Recording active"
          /\ UNCHANGED <<playback_stop, playing, buttons, workers>>
     ELSE IF play_macro_ignored
     THEN UNCHANGED <<feedback, playback_stop, playing, buttons, workers>>
     ELSE IF actions = <<>>
     THEN /\ feedback' = "No actions"
          /\ UNCHANGED <<playback_stop, playing, buttons, workers>>
     ELSE /\ playback_stop' = FALSE
          /\ playing' = TRUE
          /\ feedback' = "Playing back macro..."
          /\ buttons' = Refreshed(recording, TRUE, actions)
          /\ IF RefreshRaises(actions)
             THEN UNCHANGED workers
             ELSE \E w \in 1..MaxWorkers :
                    /\ workers[w].pc = "none"
                    /\ \A v \in 1..(w - 1) : workers[v].pc # "none"
                    /\ workers' = [workers EXCEPT ![w] = NewWorker]
  /\ UNCHANGED <<actions, queue, recording, rec_age, listening, cb, action_list,
                 draining, saved_file, saved_actions, recorded>>

\* stop_playback (button or hotkey).  A worker that is waiting out a delay when the
\* call is made notes the position of the action it waits for.
StopPlayback ==
  /\ UNCHANGED <<cvars, avars, input_since_start>>
  /\ ~draining
  /\ workers' = [w \in 1..MaxWorkers |->
                   IF workers[w].pc = "wait"
                   THEN [workers[w] EXCEPT !.cancelled_wait = workers[w].i]
                   ELSE workers[w]]
  /\ IF ~playing
     THEN UNCHANGED <<playback_stop, feedback, buttons>>
     ELSE /\ playback_stop' = TRUE
          /\ feedback' = "Stopping playback..."
          /\ buttons' = Refreshed(recording, playing, actions)
  /\ UNCHANGED <<actions, queue, recording, playing, rec_age, listening, cb,
                 action_list, draining, saved_file, saved_actions, recorded>>

\* The kinds of UIEvent that end a playback
TerminalKinds == {"playback_done", "playback_stopped", "playback_error"}

\* status_var after a terminal event (lines 696, 700, 704)
TerminalStatus(kind) ==
  CASE kind = "playback_done"    -> "Playback complete."
    [] kind = "playback_stopped" -> "Playback stopped."
    [] OTHER                     -> "Playback failed"

\* _drain_queue: one turn of its loop, on the oldest event.  The loop goes on
\* until the queue is empty; a thread that has ended leaves nothing behind.
DrainQueue ==
  /\ UNCHANGED <<cvars, avars, input_since_start>>
  /\ queue # <<>>
  /\ LET event == Head(queue)
     IN /\ queue' = Tail(queue)
        /\ draining' = (Tail(queue) # <<>>)
        /\ IF event.kind = "action_added"
           THEN /\ action_list' =
                     Append(action_list, format_action(Len(actions), event.payload))
                /\ buttons' = Refreshed(recording, playing, actions)
                /\ UNCHANGED <<playing, feedback, workers>>
           ELSE /\ playing' = FALSE
                /\ feedback' = TerminalStatus(event.kind)
                /\ buttons' = Refreshed(recording, FALSE, actions)
                /\ workers' = [w \in 1..MaxWorkers |->
                                 IF workers[w].pc = "done" THEN NoWorker
                                 ELSE workers[w]]
                /\ UNCHANGED action_list
  /\ UNCHANGED <<actions, recording, playback_stop, rec_age, listening, cb,
                 saved_file, saved_actions, recorded>>

\* ---- the listener threads: a callback and _record_event, one action per step.
\* Each listener runs its callbacks one after the other.

\* Callbacks that have an action to append and have not yet appended it
InFlight == Cardinality({d \in Devices : cb[d].pc # "idle"})

\* _on_mouse_click / _on_key_press and _record_event to line 393: the listener
\* delivers an event, the callback builds its dict, _record_event checks
\* self._recording and stamps the dict
CB_Stamp(dev, action) ==
  /\ UNCHANGED <<cvars, avars>>
  /\ listening[dev]
  /\ cb[dev].pc = "idle"
  /\ Len(actions) + InFlight < MaxActions
  /\ Len(queue) < MaxQueue
  /\ cb' = IF recording
           THEN [cb EXCEPT ![dev] = [pc |-> "append", action |-> Stamped(action)]]
           ELSE cb
  /\ input_since_start' = TRUE
  /\ UNCHANGED <<actions, queue, recording, playing, playback_stop, rec_age,
                 listening, workers, action_list, buttons, draining, saved_file,
                 feedback, saved_actions, recorded>>

\* _record_event, lines 394-395: the append, and the put that tells the main
\* thread of it
CB_Append(dev) ==
  /\ UNCHANGED <<cvars, avars, input_since_start>>
  /\ cb[dev].pc = "append"
  /\ actions' = Append(actions, cb[dev].action)
  /\ queue' = Append(queue, [kind |-> "action_added", payload |-> cb[dev].action])
  /\ cb' = [cb EXCEPT ![dev] = [pc |-> "idle", action |-> NoAction]]
  /\ UNCHANGED <<recording, playing, playback_stop, rec_age,
                 listening, workers, action_list, buttons, draining, saved_file,
                 feedback, saved_actions, recorded>>

\* The other mvars a step of a listener or of the options leaves alone
ListenerLeaves ==
  <<actions, queue, recording, playing, playback_stop, rec_age, listening, workers,
    action_list, buttons, draining, saved_file, saved_actions, recorded>>

\* The checkbox "Record mouse movement" is clicked: Tk flips the variable and
\* calls _on_option_change
OptionChange ==
  /\ UNCHANGED <<cvars, avars, ListenerLeaves, cb, feedback, input_since_start>>
  /\ ~draining
  /\ capture_moves_var' = ~capture_moves_var
  /\ capture_moves' = ~capture_moves_var
  /\ UNCHANGED <<last_move_log_t, last_move_pos, hotkey_parts, macro_hotkeys,
                 applied_hotkeys, last_key>>

\* |a - b|
Distance(a, b) == IF a < b THEN b - a ELSE a - b

\* _on_mouse_move, lines 634-645: the move is dropped
move_dropped(pos) ==
  \/ ~capture_moves
  \/ event_time - last_move_log_t < MoveGap
  \/ /\ last_move_pos # NoPos
     /\ Distance(last_move_pos.x, pos.x) + Distance(last_move_pos.y, pos.y) < MoveStep

\* _on_mouse_move, lines 633-648, to the call of _record_event: the mouse
\* listener delivers a move to pos
M_Move(pos) ==
  /\ UNCHANGED <<cvars, avars, ListenerLeaves, feedback>>
  /\ listening["mouse"]
  /\ cb["mouse"].pc = "idle"
  /\ Len(actions) + InFlight < MaxActions
  /\ Len(queue) < MaxQueue
  /\ input_since_start' = TRUE
  /\ IF move_dropped(pos)
     THEN UNCHANGED <<cb, last_move_log_t, last_move_pos>>
     ELSE /\ last_move_log_t' = event_time
          /\ last_move_pos' = pos
          /\ cb' = [cb EXCEPT !["mouse"] =
                            [pc |-> "record", action |-> MouseMoveAction(pos)]]
  /\ UNCHANGED <<capture_moves_var, capture_moves, hotkey_parts, macro_hotkeys,
                 applied_hotkeys, last_key>>

\* _record_event, lines 391-393, called by _on_mouse_move: the check of
\* self._recording and the stamp, with the time it is by then
M_Record ==
  /\ UNCHANGED <<cvars, avars, rvars, ListenerLeaves, feedback, input_since_start>>
  /\ cb["mouse"].pc = "record"
  /\ cb' = [cb EXCEPT !["mouse"] =
                    IF recording
                    THEN [pc |-> "append", action |-> Stamped(cb["mouse"].action)]
                    ELSE [pc |-> "idle", action |-> NoAction]]

\* One tick of time while the pointer moves
MoveTick ==
  /\ UNCHANGED <<cvars, avars, rvars, input_since_start>>
  /\ recording
  /\ rec_age < MaxMoveTime
  /\ rec_age' = rec_age + 1
  /\ UNCHANGED <<actions, queue, recording, playing, playback_stop,
                 listening, cb, workers, action_list, buttons, draining, saved_file,
                 feedback, saved_actions, recorded>>

\* _apply_hotkeys(show_message=True) (the Apply Hotkeys button), with entries in
\* the four fields.  registers: GlobalHotKeys(bindings).start() raises nothing;
\* when it raises, _start_hotkeys has stopped the old listener already.
ApplyHotkeys(entries, registers) ==
  /\ UNCHANGED <<cvars, avars, ListenerLeaves, cb, input_since_start>>
  /\ ~draining
  /\ IF build_hotkey_error(entries) # ""
     THEN /\ feedback' = "Invalid hotkeys"
          /\ UNCHANGED <<hotkey_parts, macro_hotkeys, applied_hotkeys>>
     ELSE IF ~registers
     THEN /\ feedback' = "Invalid hotkeys"
          /\ macro_hotkeys' = {}
          /\ UNCHANGED <<hotkey_parts, applied_hotkeys>>
     ELSE /\ feedback' = "Hotkeys updated."
          /\ macro_hotkeys' = {EntryText[entries[name]] : name \in HotkeyNames}
          /\ hotkey_parts' = suppress_parts(entries)
          /\ applied_hotkeys' = entries
  /\ UNCHANGED <<capture_moves_var, capture_moves, last_move_log_t, last_move_pos,
                 last_key>>

Phases == {"press", "release"}

\* _on_key_press / _on_key_release, lines 664-678, and _record_event to line 393:
\* the keyboard listener delivers a key; unless it is suppressed the callback
\* builds its dict and _record_event checks self._recording and stamps it
K_Event(key, phase) ==
  /\ UNCHANGED <<cvars, avars, ListenerLeaves, feedback>>
  /\ listening["keyboard"]
  /\ cb["keyboard"].pc = "idle"
  /\ should_suppress_key(key) \/ Len(actions) + InFlight < MaxKeys
  /\ Len(queue) < MaxQueue
  /\ input_since_start' = TRUE
  /\ last_key' = key
  /\ cb' = IF ~should_suppress_key(key) /\ recording
           THEN [cb EXCEPT !["keyboard"] =
                       [pc |-> "append", action |-> Stamped(KeyAction(key, phase))]]
           ELSE cb
  /\ UNCHANGED <<capture_moves_var, capture_moves, last_move_log_t, last_move_pos,
                 hotkey_parts, macro_hotkeys, applied_hotkeys>>

\* ---- a playback thread: _play_worker, one action per step of its loop

\* A worker that never sees the stop signal.
is_set_never == FALSE

\* self._playback_stop.is_set(), and what self._playback_stop.wait(delay) returns
is_set == playback_stop

\* A worker that waits for nothing.
Delay_None(t, prev_t) == 0

\* A delay without its max(0.0, ...)
Delay_Unclamped(t, prev_t) == t - prev_t

\* _play_worker, line 588: delay = max(0.0, t - prev_t)
Delay(t, prev_t) == Max(0, t - prev_t)

\* An except clause without its return: the thread goes on to line 602.
Finish_FallThrough(w, kind) ==
  /\ queue' = queue \o <<[kind |-> kind, payload |-> NoAction],
                         [kind |-> "playback_done", payload |-> NoAction]>>
  /\ workers' = [workers EXCEPT ![w].pc = "done", ![w].result = kind]

\* self._queue.put(UIEvent(kind)) and the end of the thread
Finish(w, kind) ==
  /\ queue' = Append(queue, [kind |-> kind, payload |-> NoAction])
  /\ workers' = [workers EXCEPT ![w].pc = "done", ![w].result = kind]

\* _play_worker, lines 577-582: the thread starts and copies the list
P_Start(w) ==
  /\ UNCHANGED <<cvars, avars, input_since_start>>
  /\ workers[w].pc = "start"
  /\ workers' = [workers EXCEPT ![w].pc = "head", ![w].list = actions,
                                ![w].i = 1, ![w].prev_t = 0]
  /\ UNCHANGED <<actions, queue, recording, playing, playback_stop, rec_age,
                 listening, cb, action_list, buttons, draining, saved_file,
                 feedback, saved_actions, recorded>>

\* _play_worker, lines 582-589 and 598-602: the next action of the copy, the
\* check of the stop signal before the delay, the delay
P_Head(w) ==
  /\ UNCHANGED <<cvars, avars, input_since_start>>
  /\ workers[w].pc = "head"
  /\ LET me == workers[w]
     IN IF me.i > Len(me.list)
        THEN Finish(w, "playback_done")
        ELSE IF is_set
        THEN Finish(w, "playback_stopped")
        ELSE IF TimeRaises(me.list[me.i])
        THEN Finish(w, "playback_error")
        ELSE LET t == TimeOf(me.list[me.i])
                 delay == Delay(t, me.prev_t)
             IN /\ workers' = [workers EXCEPT
                                 ![w].t = t,
                                 ![w].wait_left = delay,
                                 ![w].waited = me.waited + delay,
                                 ![w].pc = IF delay # 0 THEN "wait" ELSE "post"]
                /\ UNCHANGED queue
  /\ UNCHANGED <<actions, recording, playing, playback_stop, rec_age,
                 listening, cb, action_list, buttons, draining, saved_file,
                 feedback, saved_actions, recorded>>

\* _play_worker, lines 590-592: self._playback_stop.wait(delay) returns, True when
\* the signal is set and False when the delay has run out
P_Wait(w) ==
  /\ UNCHANGED <<cvars, avars, input_since_start>>
  /\ workers[w].pc = "wait"
  /\ IF is_set
     THEN Finish(w, "playback_stopped")
     ELSE /\ workers[w].wait_left = 0
          /\ workers' = [workers EXCEPT ![w].pc = "post"]
          /\ UNCHANGED queue
  /\ UNCHANGED <<actions, recording, playing, playback_stop, rec_age,
                 listening, cb, action_list, buttons, draining, saved_file,
                 feedback, saved_actions, recorded>>

\* _play_worker, lines 593-597: the check of the stop signal before executing,
\* then _execute_action.  The worker logs the position of the action it executed
\* and whether the time since the previous one covers the two timestamps' gap.
P_Execute(w) ==
  /\ UNCHANGED <<cvars, avars, input_since_start>>
  /\ workers[w].pc = "post"
  /\ LET me == workers[w]
         gap == IF me.i = 1 THEN 0
                ELSE TimeOf(me.list[me.i]) - TimeOf(me.list[me.i - 1])
     IN IF is_set
        THEN Finish(w, "playback_stopped")
        ELSE IF ExecRaises(me.list[me.i])
        THEN Finish(w, "playback_error")
        ELSE /\ workers' = [workers EXCEPT
                              ![w].prev_t = me.t,
                              ![w].log = Append(me.log, me.i),
                              ![w].gaps_ok = me.gaps_ok /\ me.since_exec >= gap,
                              ![w].since_exec = 0,
                              ![w].i = me.i + 1,
                              ![w].pc = "head"]
             /\ UNCHANGED queue
  /\ UNCHANGED <<actions, recording, playing, playback_stop, rec_age,
                 listening, cb, action_list, buttons, draining, saved_file,
                 feedback, saved_actions, recorded>>

\* One tick of time: the age of _record_started_at, every running wait and the
\* time since each worker's last executed action advance.
MacroTick ==
  /\ UNCHANGED <<cvars, avars, input_since_start>>
  /\ rec_age' = IF recording THEN Min(rec_age + 1, MaxTime) ELSE rec_age
  /\ workers' = [w \in 1..MaxWorkers |->
                   IF workers[w].pc \in {"none", "done"} THEN workers[w]
                   ELSE [workers[w] EXCEPT
                           !.wait_left = Max(workers[w].wait_left - 1, 0),
                           !.since_exec = Min(workers[w].since_exec + 1, MaxWait)]]
  /\ UNCHANGED <<actions, queue, recording, playing, playback_stop,
                 listening, cb, action_list, buttons, draining, saved_file,
                 feedback, saved_actions, recorded>>

\* The handlers that start and stop recordings and playbacks, and the queue drain
Handlers ==
  \/ StartRecording
  \/ (StopRecording \/ ClearActions \/ PlayMacro \/ StopPlayback \/ DrainQueue)
       /\ UNCHANGED rvars

\* The handlers behind the Save and Load buttons
FileHandlers ==
  \/ \E path \in SavePaths : SaveMacro(path)
  \/ \E path \in LoadPaths : LoadMacro(path)

Listeners ==
  \E dev \in Devices :
    \/ \E action \in DeviceEvents(dev) : CB_Stamp(dev, action)
    \/ CB_Append(dev)

Players ==
  \E w \in 1..MaxWorkers : P_Start(w) \/ P_Head(w) \/ P_Wait(w) \/ P_Execute(w)

\* ------------------------------------------------------------ specifications

\* The Click Driver: every configuration, the macro window left as constructed
ClickerStart == ClickerInit /\ MacroInit /\ NoProgram

ClickerSpec == ClickerStart /\ [][ClickerNext]_vars

\* The Click Driver with no jitter and no duration limit, its cancellations observed
CancelInit ==
  /\ ClickerInit /\ cfg.jitter_sec = 0 /\ cfg.duration_sec = 0
  /\ MacroInit
  /\ NoProgram

CancelSpec == CancelInit /\ [][CancelNext]_vars

\* The program from main() on, for every command line
ProgramInit ==
  /\ app = "main"
  /\ default_config = DEFAULT_CONFIG
  /\ replaced = 0
  /\ since_cancel = None
  /\ cli_args \in CommandLines
  /\ built = DEFAULT_CONFIG
  /\ hotkey_listener = NoListener
  /\ message = ""
  /\ NoDriver
  /\ MacroInit

ProgramSpec == ProgramInit /\ [][ProgramNext]_vars

\* AutoClicker.is_clicking
is_clicking == clicking /\ ~stop_all

\* The drivers configured with a duration limit and no count limit (jitter, which
\* only varies the length of a sleep, is left at 0: the interval varies it).  The
\* worker thread is scheduled and time passes.
DurationInit ==
  /\ ClickerInit /\ cfg.click_count = 0 /\ cfg.duration_sec > 0 /\ cfg.jitter_sec = 0
  /\ MacroInit
  /\ NoProgram

ClickerFairSpec ==
  /\ DurationInit
  /\ [][ClickerNext]_vars
  /\ WF_vars(Worker /\ UNCHANGED <<since_cancel, rvars>>)
  /\ WF_vars(ClickerTick /\ UNCHANGED <<since_cancel, rvars>>)

\* The driver of the other program, left as constructed with no limit set
IdleDriver ==
  /\ ClickerInit
  /\ cfg = [interval_sec |-> MaxInterval, jitter_sec |-> 0, click_count |-> 0,
            duration_sec |-> 0, failsafe_corner_stop |-> TRUE,
            button |-> "left", toggle_key |-> "<f8>", quit_key |-> "<esc>"]
  /\ NoProgram

\* The position-th event of a macro: key presses and mouse clicks alternate
EventAt(position) == IF position % 2 = 1 THEN KeyPressAction ELSE MouseClickAction

\* The lists a recording can leave behind: up to MaxActions stamped events
RecordedMacros ==
  UNION {{[i \in 1..n |-> EventAt(i) @@ [t |-> <<"float", ts[i]>>]] :
            ts \in [1..n -> 0..MaxTime]} : n \in 1..MaxActions}

\* The window after a recording was stopped, or after the file "bare" was loaded,
\* with every event drained
IdleWith(acts) ==
  /\ actions = acts
  /\ queue = <<>>
  /\ recording = FALSE
  /\ playing = FALSE
  /\ playback_stop = FALSE
  /\ rec_age = 0
  /\ listening = [d \in Devices |-> FALSE]
  /\ cb = [d \in Devices |-> [pc |-> "idle", action |-> NoAction]]
  /\ workers = [w \in 1..MaxWorkers |-> NoWorker]
  /\ action_list = RowsFrom(acts, 1)
  /\ buttons = refresh_feedback(FALSE, FALSE, acts)
  /\ draining = FALSE
  /\ saved_file = NoFile
  /\ feedback = IF acts \in RecordedMacros THEN "Recording stopped."
                ELSE "Loaded macro: external"
  /\ saved_actions = <<>>
  /\ recorded = (acts \in RecordedMacros)
  /\ input_since_start = (acts \in RecordedMacros)
  /\ OptionsInit

\* The recorder with its listeners, and the player on what was recorded
RecorderNext ==
  /\ Handlers \/ ((Listeners \/ Players \/ MacroTick) /\ UNCHANGED rvars)
  /\ UNCHANGED since_cancel

RecorderStart == MacroInit /\ IdleDriver

RecorderSpec == RecorderStart /\ [][RecorderNext]_vars

\* The player and the files, on a macro that was recorded or loaded; no input
\* event arrives
PlayerNext ==
  /\ Handlers \/ ((FileHandlers \/ Players \/ MacroTick) /\ UNCHANGED rvars)
  /\ UNCHANGED since_cancel

PlayerInit ==
  /\ \E acts \in RecordedMacros \cup {LoadedActions(ExternalFiles.bare)} : IdleWith(acts)
  /\ IdleDriver

PlayerSpec == PlayerInit /\ [][PlayerNext]_vars

\* The recorder while the pointer moves: the option, recordings, the mouse
\* listener's move callback, the drain, and time in ticks of 10 ms
MoveNext ==
  /\ \/ StartRecording
     \/ OptionChange
     \/ (StopRecording \/ DrainQueue) /\ UNCHANGED rvars
     \/ \E pos \in PointerPositions : M_Move(pos)
     \/ M_Record
     \/ CB_Append("mouse") /\ UNCHANGED rvars
     \/ MoveTick
  /\ UNCHANGED since_cancel

MoveSpec == RecorderStart /\ [][MoveNext]_vars

\* The recorder while keys are typed: recordings, the Apply Hotkeys button, the
\* keyboard listener's callbacks, the drain; every key is typed at time 0
KeyNext ==
  /\ \/ StartRecording
     \/ (StopRecording \/ DrainQueue) /\ UNCHANGED rvars
     \/ \E entries \in HotkeyEntries, registers \in BOOLEAN :
          ApplyHotkeys(entries, registers)
     \/ \E key \in Keys, phase \in Phases : K_Event(key, phase)
     \/ CB_Append("keyboard") /\ UNCHANGED rvars
  /\ UNCHANGED since_cancel

KeySpec == RecorderStart /\ [][KeyNext]_vars

\* --------------------------------------------------- claims on the Click Driver

\* C1: with click_count = N > 0, when the worker auto-pauses for the limit after an
\* idle->active toggle that no failsafe trigger, duration limit, toggle or stop
\* followed, exactly N clicks were issued since that toggle.  (Stated for the
\* drivers with no duration limit and no failsafe, where only toggle() and stop()
\* can intervene.)
C1_ExactlyNClicks ==
  (/\ wpc = "limits_clear"
   /\ cfg.click_count > 0 /\ cfg.duration_sec = 0 /\ ~cfg.failsafe_corner_stop
   /\ ~intervened)
    => clicks_since_on = cfg.click_count

\* C2: from the return of an idle->active toggle until the first click of the new
\* activation is issued, clicks_done() is 0.
C2_ResetOnActivate == fresh => clicks_done = 0

\* C10: with a duration limit D > 0 and no count limit, at most one click (the one
\* in flight) is issued once the time since activation is >= D, and an active
\* driver in that situation becomes idle.
C10_DurationStop ==
  /\ [](late_clicks <= 1)
  /\ (is_clicking /\ ElapsedAtLeastD) ~> ~is_clicking

\* C10, its case: the click in flight was issued after D had elapsed, and the
\* worker then paused the driver for the limit.
C10_Witness ==
  /\ late_clicks = 1
  /\ ~clicking /\ ~stop_all
  /\ state_note = "Stopped: click/duration limit reached."
  /\ wpc = "while"

\* ---------------------------------------------------- claims on the macro window

\* The playback threads that have not yet put their terminal event
LiveWorkers == {w \in 1..MaxWorkers : workers[w].pc \notin {"none", "done"}}

\* C3: a worker that was waiting out the delay before the action at position k
\* when stop_playback() was called goes nowhere but to its end, has executed only
\* positions before k, and ends with 'playback_stopped'.
C3_StopDuringWait ==
  \A w \in 1..MaxWorkers :
    workers[w].cancelled_wait > 0 =>
      /\ workers[w].pc \in {"wait", "done"}
      /\ \A k \in 1..Len(workers[w].log) : workers[w].log[k] < workers[w].cancelled_wait
      /\ workers[w].pc = "done" => workers[w].result = "playback_stopped"

\* C3, its case: the first action was executed, stop_playback() came during the
\* wait before the second, and the worker has ended.
C3_Witness ==
  \E w \in 1..MaxWorkers :
    /\ workers[w].cancelled_wait = 2
    /\ workers[w].log = <<1>>
    /\ workers[w].pc = "done"
    /\ workers[w].result = "playback_stopped"

\* C4: the timestamps of a recorded list are >= 0 and non-decreasing in list
\* order.
C4_TimestampsOrdered ==
  recorded =>
    \A i \in 1..Len(actions) :
      /\ TimeOf(actions[i]) >= 0
      /\ i > 1 => TimeOf(actions[i - 1]) <= TimeOf(actions[i])

\* C5: _recording and _playing are never both true; start_recording() while
\* playing and play_macro() while recording change neither flag nor the list.
C5_MutualExclusion ==
  /\ [](~(recording /\ playing))
  /\ [][((playing /\ StartRecording) \/ (recording /\ PlayMacro))
          => UNCHANGED <<recording, playing, actions>>]_vars

\* C5, its case: start_recording() was refused during a playback.
C5_Witness ==
  /\ feedback = "Playback running"
  /\ playing /\ ~recording
  /\ LiveWorkers # {}
  /\ actions # <<>>

\* C6: at most one playback thread is short of its terminal event, at most one
\* terminal event waits in the queue and none while a thread is short of it, and
\* play_macro() while _playing is true starts no thread.
C6_OneWorker ==
  /\ [](Cardinality(LiveWorkers) <= 1)
  /\ [](Cardinality({k \in 1..Len(queue) : queue[k].kind \in TerminalKinds})
          <= IF LiveWorkers = {} THEN 1 ELSE 0)
  /\ [][(playing /\ PlayMacro) => workers' = workers]_vars

\* C6, its case: a worker has put its terminal event and executes nothing
\* further, _playing is still true (a play_macro() now starts nothing), and no
\* other thread exists.
C6_Witness ==
  /\ playing
  /\ LiveWorkers = {}
  /\ \E w \in 1..MaxWorkers :
       /\ workers[w].pc = "done"
       /\ workers[w].log # <<>>
       /\ queue = <<[kind |-> workers[w].result, payload |-> NoAction]>>

\* C7: no step taken while _playing is true changes the action list.
C7_NoMutationWhilePlaying == [][playing => actions' = actions]_vars

\* C8: load_macro() of the file save_macro() wrote leaves the list that was
\* saved.
C8_RoundTrip ==
  [][(saved_file # NoFile /\ LoadMacro("saved")) => actions' = saved_actions]_vars

\* C8, its case: a list of two actions was saved and the file was loaded.
C8_Witness ==
  /\ feedback = "Loaded macro: saved"
  /\ saved_file # NoFile
  /\ Len(saved_actions) >= 2
  /\ actions = saved_actions

\* The positions 1..n in order
Positions(n) == [k \in 1..n |-> k]

\* C9: a playback executes the positions of its list in order, each once and
\* each no earlier than the gap between its timestamp and the previous one's
\* after the previous one; a playback that ends with 'playback_done' has executed
\* every position.
C9_PlaybackInOrder ==
  \A w \in 1..MaxWorkers :
    /\ workers[w].log = Positions(Len(workers[w].log))
    /\ workers[w].gaps_ok
    /\ (workers[w].pc = "done" /\ workers[w].result = "playback_done")
         => workers[w].log = Positions(Len(workers[w].list))

\* C9, its case: a playback of two actions, the second stamped later than the
\* first, has ended with 'playback_done'.
C9_Witness ==
  \E w \in 1..MaxWorkers :
    /\ workers[w].pc = "done"
    /\ workers[w].result = "playback_done"
    /\ workers[w].log = <<1, 2>>
    /\ TimeOf(workers[w].list[2]) > TimeOf(workers[w].list[1])

\* C9 as stated: every playback that was not cancelled has executed every
\* position of its list when it ends.
C9_UncancelledExecutesAll ==
  \A w \in 1..MaxWorkers :
    (workers[w].pc = "done" /\ workers[w].result # "playback_stopped")
      => workers[w].log = Positions(Len(workers[w].list))

\* ------------------------------------------- further claims on the Click Driver

\* C11: the delay _sleep_interval computes from interval I >= 0 and jitter J >= 0
\* lies in [max(0, I - J), I + J], is exactly I when J = 0, and is never negative.
C11_DelayRange ==
  [][W_SleepInterval =>
       /\ sleep_left' >= Max(0, cfg.interval_sec - cfg.jitter_sec)
       /\ sleep_left' <= cfg.interval_sec + cfg.jitter_sec
       /\ cfg.jitter_sec = 0 => sleep_left' = cfg.interval_sec
       /\ sleep_left' >= 0]_vars

\* C11, its case: with a jitter larger than the interval the worker sleeps the
\* longest delay of the range, I + J.
C11_Witness ==
  /\ wpc = "sleeping"
  /\ cfg.jitter_sec > cfg.interval_sec
  /\ sleep_left = cfg.interval_sec + cfg.jitter_sec

\* ------------------------------------------- further claims on the Macro Recorder

\* C14: an accepted start_recording() empties the action list, and the list stays
\* empty while that recording runs and is stopped, as long as no input event was
\* delivered since the start.
C14_EmptyUntilInput ==
  (recorded /\ ~input_since_start) => actions = <<>>

\* C15: a listener callback appends to the action list only while a recording is
\* running; once stop_recording() has returned, no callback changes the list.
C15_NoAppendAfterStop ==
  [][(\E dev \in Devices : CB_Append(dev)) => recording]_vars

Raises(action) == TimeRaises(action) \/ ExecRaises(action)

\* C18: a playback thread that has ended has put exactly one terminal event and
\* executes nothing further; when it ended with 'playback_error' the action after
\* the last one it executed is one that raises, and no 'playback_done' is put;
\* when no action of its list raises and it was not cancelled it ended with
\* 'playback_done'; the action list is the one it copied; and the drain of the
\* terminal event clears _playing and leaves the list alone.
C18_ErrorEndsPlayback ==
  /\ [](\A w \in 1..MaxWorkers :
          workers[w].pc = "done" =>
            LET me == workers[w]
            IN /\ queue = <<[kind |-> me.result, payload |-> NoAction]>>
               /\ actions = me.list
               /\ me.result = "playback_error" =>
                    /\ Len(me.log) < Len(me.list)
                    /\ me.log = Positions(Len(me.log))
                    /\ Raises(me.list[Len(me.log) + 1])
               /\ (me.result # "playback_stopped"
                     /\ \A i \in 1..Len(me.list) : ~Raises(me.list[i]))
                    => me.result = "playback_done")
  /\ [][\A w \in 1..MaxWorkers :
          workers[w].pc = "done" =>
            /\ workers'[w].pc \in {"done", "none"}
            /\ workers'[w].pc = "done" => workers'[w] = workers[w]]_vars
  /\ [][(DrainQueue /\ Head(queue).kind \in TerminalKinds)
          => (~playing' /\ actions' = actions)]_vars

\* C18, its case: a playback has executed two actions, the third raised inside
\* _execute_action, and the thread has ended with 'playback_error'.
C18_Witness ==
  \E w \in 1..MaxWorkers :
    /\ workers[w].pc = "done"
    /\ workers[w].result = "playback_error"
    /\ workers[w].log = <<1, 2>>
    /\ ExecRaises(workers[w].list[3])
    /\ playing

\* ------------------------------------------------------ claims on the program

\* What build_config_from_args should give for field k: the command line's value
\* when an option names k, else the config file's when it has the key k, else the
\* default
Expected(k) ==
  IF k = "failsafe_corner_stop" /\ "no_failsafe" \in DOMAIN cli_args
  THEN FALSE
  ELSE IF \E d \in DOMAIN cli_args \cap DOMAIN ArgField : ArgField[d] = k
  THEN cli_args[CHOOSE d \in DOMAIN cli_args \cap DOMAIN ArgField : ArgField[d] = k]
  ELSE IF "config" \in DOMAIN cli_args /\ k \in DOMAIN load_config_file(cli_args.config)
  THEN load_config_file(cli_args.config)[k]
  ELSE DEFAULT_CONFIG[k]

\* C12: the merged configuration has exactly the fields of ClickConfig (an
\* unknown key adds none and raises nothing), each field an override names has
\* the override's value, every other field keeps the base value, and overrides
\* with unknown keys only give a configuration equal to the base.
C12_MergeKeepsBase ==
  app \in {"built", "gui_init", "cli", "gui", "exited"} =>
    /\ DOMAIN built = DOMAIN DEFAULT_CONFIG
    /\ \A k \in DOMAIN DEFAULT_CONFIG : built[k] = Expected(k)
    /\ ("config" \in DOMAIN cli_args
          /\ DOMAIN load_config_file(cli_args.config) \cap DOMAIN DEFAULT_CONFIG = {}
          /\ DOMAIN cli_args \cap DOMAIN ArgField = {})
         => built = DEFAULT_CONFIG

\* C12, its case: a config file with one recognized and one unknown key was
\* merged; the recognized key took the file's value and the rest kept the base's.
C12_Witness ==
  /\ app = "built"
  /\ "config" \in DOMAIN cli_args
  /\ cli_args.config = "mixed"
  /\ DOMAIN cli_args \cap DOMAIN ArgField = {}
  /\ built.interval_sec = 0
  /\ built.interval_sec # DEFAULT_CONFIG.interval_sec
  /\ built.quit_key = DEFAULT_CONFIG.quit_key

\* C13: no driver and no hotkey listener is ever set up with a configuration
\* whose toggle and quit hotkeys are the same string.
C13_EqualHotkeysRefused ==
  /\ wpc # "none" => cfg.toggle_key # cfg.quit_key
  /\ hotkey_listener.on => hotkey_listener.toggle # hotkey_listener.quit

\* C16: an on_apply that ends in a configuration error leaves the driver
\* instance, its idle/active state, its counters and the registered hotkey
\* listener as they were.
C16_FailedApplyChangesNothing ==
  [][\A form \in Forms, registers \in BOOLEAN :
       (OnApply(form, registers) /\ ApplyFails(form, registers))
         => UNCHANGED <<cfg, clicking, stop_all, since_started, clicks_done,
                        state_note, wpc, hotkey_listener>>]_vars

\* C19: every configuration a driver's worker was constructed with has
\* interval, jitter, count and duration >= 0 and a button of BUTTON_MAP.
C19_ValidWorkerConfig ==
  wpc # "none" =>
    /\ cfg.interval_sec >= 0
    /\ cfg.jitter_sec >= 0
    /\ cfg.click_count >= 0
    /\ cfg.duration_sec >= 0
    /\ cfg.button \in BUTTON_MAP

\* ------------------------------------------------- claims on AutoClicker.stop

\* C20: once stop() has returned, the worker clicks in no cycle that it entered
\* because a later toggle() had set _clicking.
C20_StopIsTerminal ==
  [][W_Click => ~entered_after_stop]_vars

\* C21: once a toggle() from active to idle, or a stop(), has returned, the worker
\* issues at most one click until a toggle() activates the driver again; after a
\* stop() it issues at most one click at all.
C21_SingleCycleLatency == since_cancel # 2

\* C21, its case: the worker was inside a cycle when toggle() paused the driver,
\* clicked once more, and has seen the cleared flag.
C21_Witness ==
  /\ since_cancel = 1
  /\ ~clicking /\ ~stop_all
  /\ wpc = "idle_sleep"

\* C22: in a cycle of the worker the pointer is read first; the cycle pauses the
\* driver exactly when the failsafe is enabled and the read gives x <= 0 and
\* y <= 0 (a read that raises, or a disabled failsafe, never pauses it); a paused
\* cycle clears the clicking flag and returns to the loop head without a click; the
\* limit check is reached only from the failsafe check, the click only from the
\* limit check.
C22_FailsafeFirst ==
  [][ /\ \A pos \in PointerReads :
           W_FailsafeRead(pos) =>
             ((wpc' = "failsafe_clear") <=>
                (cfg.failsafe_corner_stop /\ pos.ok /\ pos.x <= 0 /\ pos.y <= 0))
      /\ (wpc = "failsafe" /\ wpc' # wpc) => wpc' \in {"failsafe_clear", "limits"}
      /\ (wpc = "failsafe_clear" /\ wpc' # wpc) =>
           (~clicking' /\ wpc' = "while" /\ clicks_done' = clicks_done)
      /\ (wpc' = "limits" /\ wpc' # wpc) => wpc = "failsafe"
      /\ (wpc' = "do_click" /\ wpc' # wpc) => wpc = "limits"
      /\ W_Click => wpc = "do_click"
    ]_vars

\* C22, its case: the failsafe paused an active driver before its first click.
C22_Witness ==
  /\ cfg.failsafe_corner_stop
  /\ state_note = "Failsafe triggered: mouse moved to (0, 0)."
  /\ ~clicking /\ wpc = "while" /\ cpc = "idle"
  /\ clicks_done = 0 /\ since_cancel = None

\* C27: when the worker clears a set clicking flag on the grounds of a limit, the
\* limit holds for the click counter and the start time the driver has at that
\* moment (those of the activation that set the flag).
C27_NoStaleClear ==
  [][(W_Clear /\ wpc = "limits_clear" /\ clicking) => should_stop_for_limits]_vars

\* The drivers whose _stop_all is unset: the replaced ones and the current one
Unstopped == replaced + (IF wpc # "none" /\ ~stop_all THEN 1 ELSE 0)

\* C23: the configuration a driver works with changes only when a driver is
\* constructed; an on_apply that succeeds leaves a new driver with the form's
\* configuration, click counter 0 and both flags unset, and goes on to toggle()
\* it, which ends with the driver active, exactly when the old driver was
\* active; and after every step at most one driver has its _stop_all unset.
\* (An on_apply that succeeds is looked for among the steps of the window's idle
\* thread that leave a driver with the note and the start time of __init__.)
C23_ApplyReplacesDriver ==
  [][ /\ cfg' # cfg =>
           \/ RunCli \/ GuiConstruct
           \/ \E form \in Forms, registers \in BOOLEAN :
                OnApply(form, registers) /\ ~ApplyFails(form, registers)
      /\ (app = "gui" /\ cpc = "idle" /\ state_note' = "Paused." /\ since_started' = None) =>
           \A form \in Forms, registers \in BOOLEAN :
             (~ApplyFails(form, registers) /\ OnApply(form, registers)) =>
             /\ cfg' = read_config(form)
             /\ clicks_done' = 0 /\ ~clicking' /\ ~stop_all' /\ wpc' = "while"
             /\ cpc' = (IF clicking /\ ~stop_all THEN "t_started" ELSE "idle")
      /\ (cpc \in {"t_started", "t_reset", "t_set"} /\ cpc' = "idle") => clicking'
      /\ Unstopped' <= 1
    ]_vars

\* C23, its case: on_apply has just replaced an active driver by a new one with
\* another configuration and is about to toggle() the new one.
C23_Witness ==
  /\ app = "gui"
  /\ message = ""
  /\ cfg # built
  /\ state_note = "Paused." /\ clicks_done = 0 /\ ~clicking /\ ~stop_all
  /\ cpc = "t_started"
  /\ replaced = 0

\* C24: the resolved configuration has, for each field, the value the command
\* line gives when an option names the field (False for the failsafe when
\* --no-failsafe is given), else the value of the config file when the file has
\* the field's key, else the default's; and DEFAULT_CONFIG keeps its values.
C24_ThreeLayers ==
  /\ default_config = DEFAULT_CONFIG
  /\ app \in {"built", "gui_init", "cli", "gui", "exited"} =>
       LET named == {ArgField[d] : d \in DOMAIN cli_args \cap DOMAIN ArgField}
                      \cup (IF "no_failsafe" \in DOMAIN cli_args
                            THEN {"failsafe_corner_stop"} ELSE {})
           file == IF "config" \in DOMAIN cli_args
                   THEN load_config_file(cli_args.config) ELSE <<>>
       IN /\ \A d \in DOMAIN cli_args \cap DOMAIN ArgField :
               built[ArgField[d]] = cli_args[d]
          /\ "no_failsafe" \in DOMAIN cli_args => ~built.failsafe_corner_stop
          /\ \A k \in (DOMAIN DEFAULT_CONFIG \cap DOMAIN file) \ named :
               built[k] = file[k]
          /\ \A k \in DOMAIN DEFAULT_CONFIG \ (DOMAIN file \cup named) :
               built[k] = DEFAULT_CONFIG[k]

\* C24, its case: a command line that names a config file and two options; the
\* jitter and the failsafe come from the command line although the file has
\* them, the click count from the file, the interval from the default.
C24_Witness ==
  /\ app = "built"
  /\ cli_args = [cli |-> TRUE, config |-> "failsafe", no_failsafe |-> TRUE, jitter |-> 0]
  /\ built.jitter_sec = 0 /\ load_config_file("failsafe").jitter_sec = 1
  /\ ~built.failsafe_corner_stop /\ load_config_file("failsafe").failsafe_corner_stop
  /\ built.click_count = 2 /\ DEFAULT_CONFIG.click_count = 0
  /\ built.interval_sec = DEFAULT_CONFIG.interval_sec

\* C28: whenever the UI event queue is empty and no recording is active, the
\* listbox has one row per action of the list, in list order, each row formatted
\* with the action's 1-based position.
C28_ListboxMatchesActions ==
  (queue = <<>> /\ ~recording) =>
    /\ Len(action_list) = Len(actions)
    /\ \A i \in 1..Len(actions) : action_list[i] = format_action(i, actions[i])

\* The timestamps of a list do not decrease
NonDecreasing(list) ==
  \A i \in 1..Len(list) - 1 : TimeOf(list[i]) <= TimeOf(list[i + 1])

\* C29: the wait a playback thread sets before action i of its list is
\* max(0, t_i - t_(i-1)), t_(i-1) being the timestamp of the action just before
\* it in the list and 0 for the first action, a missing "t" counting as 0; and a
\* playback that ends with "playback_done" on a list whose timestamps do not
\* decrease has set waits that add up to the last action's timestamp.
C29_WaitIsGapToPrevious ==
  [][\A w \in 1..MaxWorkers :
       LET me == workers[w]
           t_i == IF "t" \in DOMAIN me.list[me.i] THEN TimeOf(me.list[me.i]) ELSE 0
           t_before == IF me.i = 1 THEN 0
                       ELSE IF "t" \in DOMAIN me.list[me.i - 1]
                       THEN TimeOf(me.list[me.i - 1]) ELSE 0
       IN /\ (me.pc = "head" /\ workers'[w].pc \in {"wait", "post"}) =>
               workers'[w].wait_left = Max(0, t_i - t_before)
          /\ (me.pc = "head" /\ workers'[w].pc = "done"
                /\ workers'[w].result = "playback_done"
                /\ me.list # <<>> /\ NonDecreasing(me.list)) =>
               workers'[w].waited = TimeOf(me.list[Len(me.list)])
    ]_vars

\* C29, its case: a playback thread is waiting before the third action of a list
\* whose first action has a timestamp above 0 and whose second has no "t": it
\* waited the first timestamp, nothing before the second action, and the whole
\* of the third timestamp before the third.
C29_Witness ==
  \E w \in 1..MaxWorkers :
    /\ workers[w].pc = "wait"
    /\ workers[w].i = 3
    /\ "t" \notin DOMAIN workers[w].list[2]
    /\ TimeOf(workers[w].list[1]) > 0
    /\ TimeOf(workers[w].list[3]) = TimeOf(workers[w].list[1])
    /\ workers[w].log = <<1, 2>>
    /\ workers[w].waited = TimeOf(workers[w].list[1]) + TimeOf(workers[w].list[3])

\* A recorded pointer move
IsMove(action) == action.kind = <<"str", "mouse_move">>

MatchesSingleKeyHotkey(key) ==
  \E name \in HotkeyNames :
    /\ Len(parse(applied_hotkeys[name])) = 1
    /\ hotkey_part_matches_key(parse(applied_hotkeys[name])[1], key)

\* C26: a key event delivered while recording is left out of the action list
\* exactly when the key matches a hotkey of the last successful Apply Hotkeys
\* that has a single part (a key that is part of a chord only is recorded); and
\* an Apply Hotkeys that is rejected leaves the set of suppressed keys as it was.
C26_SingleKeyHotkeysSuppressed ==
  [][ /\ \A key \in Keys :
           (recording /\ last_key' = key /\ \E phase \in Phases : K_Event(key, phase)) =>
             ((cb'["keyboard"].pc = "idle") <=> MatchesSingleKeyHotkey(key))
      /\ feedback' = "Invalid hotkeys" => hotkey_parts' = hotkey_parts
    ]_vars

\* C26, its case: with the hotkeys <ctrl>+a, <f10>, <f11>, <f12> applied, the
\* key A was recorded and the key f10 has just been left out.
C26_Witness ==
  /\ recording
  /\ applied_hotkeys = [DefaultHotkeys EXCEPT !.record_start = "ctrl_a"]
  /\ last_key = "f10"
  /\ cb["keyboard"].pc = "idle"
  /\ Len(actions) = 1
  /\ actions[1].value = <<"str", "A">>

====
